---- MODULE Spec2Model ----
(***************************************************************************)
(* Prompt versioning of the dashboard repository.                          *)
(*                                                                         *)
(* The prompt store is the MongoDB collection 'promptVersions' served by   *)
(* the route handlers of src/app/api/prompt/route.ts (POST, PUT, DELETE).  *)
(* Every handler awaits the collection between its read and its write, so  *)
(* a handler is a sequence of atomic storage steps that interleave with    *)
(* the steps of other requests.  A caller is either a client that talks to *)
(* the route directly, or the prompt manager of                            *)
(* src/app/pages/Promptmanager.tsx, whose dialog (handleSubmit) validates  *)
(* the form, sends the request and continues when the response arrives.    *)
(*                                                                         *)
(* Naming: route.ts calls the title field 'feature' and the description    *)
(* field 'type'; the prompt manager calls them promptTitle and             *)
(* promptDescription.  The model keeps the names of route.ts for stored    *)
(* documents.  metadata, createdAt and updatedAt are payload that no       *)
(* guard reads and are not part of the modelled document.                  *)
(*                                                                         *)
(* Strings are sequences of one-character strings, so that emptiness,      *)
(* trim and parseInt are computed and not assumed.  The collection is a    *)
(* bag of documents: insertOne gives every document a fresh _id that no    *)
(* handler reads, so two documents can agree in every modelled field.      *)
(***************************************************************************)
EXTENDS Integers, Sequences, FiniteSets, Bags, TLC

VARIABLES
    store,      \* the documents of collection 'promptVersions' (a bag)
    inserted,   \* number of insertOne calls so far
    pending,    \* bag of handler invocations that await their insertOne
    resp,       \* the response most recently returned to a direct caller
    assigned,   \* history: every <<promptId, version>> an insert has used
    inbox,      \* bag of responses on their way to the prompt manager
    formData,   \* prompt manager: the fields of the dialog's form
    isEditing,  \* prompt manager: the dialog updates an existing prompt
    editingPrompt, \* prompt manager: the record the dialog edits, or Null
    isDialogOpen, \* prompt manager: the dialog is shown
    error,      \* prompt manager: the message of the error banner, or Null
    loading,    \* prompt manager: a load of the list has not finished
    prompts,    \* prompt manager: the records of the list, in order
    filters,    \* prompt manager: the filter set of the list
    versions,   \* prompt manager: the records of the version history
    viewingVersions, \* prompt manager: the promptId of the history, or Null
    data,       \* dashboard: the artifact records of the overview
    dashLoading, \* dashboard: a fetch of the artifacts has not finished
    dashError,  \* dashboard: the message of the error banner, or Null
    dashInbox,  \* bag of responses on their way to the dashboard
    environment, \* dashboard: the environment selected
    timeWindow, \* dashboard: the time window selected
    customDateRange, \* dashboard: the days of the custom range
    activeTab,  \* dashboard: the tab shown
    table,      \* data table: its state while the data tab is shown
    tableInbox  \* bag of responses on their way to the data table

serverVars == <<store, inserted, pending, resp, assigned, inbox>>

listVars == <<filters, versions, viewingVersions>>

uiVars == <<formData, isEditing, editingPrompt, isDialogOpen, error, loading, prompts,
            filters, versions, viewingVersions>>

tableVars == <<table, tableInbox>>

dashVars == <<data, dashLoading, dashError, dashInbox,
              environment, timeWindow, customDateRange, activeTab,
              table, tableInbox>>

clientVars == <<uiVars, dashVars>>

vars == <<store, inserted, pending, resp, assigned, inbox,
          formData, isEditing, editingPrompt, isDialogOpen, error, loading, prompts,
          filters, versions, viewingVersions,
          data, dashLoading, dashError, dashInbox,
          environment, timeWindow, customDateRange, activeTab,
          table, tableInbox>>

----------------------------------------------------------------------------
(* Bounds *)

\* number of requests that can be in flight at the same time
MaxReq == 2
\* number of documents inserted over one behaviour
MaxDocs == 3
\* number of fetches of the prompt manager that can be in flight at the
\* same time
MaxFetch == 1
\* number of loads of the prompt list that can be in flight at the same
\* time when the filters change
MaxLoads == 2
\* number of artifact records in a response
MaxRecords == 3

----------------------------------------------------------------------------
(* Strings *)

Empty == << >>
Blank == << " " >>

Digits == <<"0", "1", "2", "3", "4", "5", "6", "7", "8", "9">>

IsSpace(c) == c = " "

IsDigit(c) == \E i \in 1..10 : Digits[i] = c

DigitVal(c) == (CHOOSE i \in 1..10 : Digits[i] = c) - 1

\* String.prototype.trim: drop leading and trailing white space
RECURSIVE TrimLeft(_)
TrimLeft(s) ==
    IF s = Empty THEN Empty
    ELSE IF IsSpace(Head(s)) THEN TrimLeft(Tail(s)) ELSE s

RECURSIVE TrimRight(_)
TrimRight(s) ==
    IF s = Empty THEN Empty
    ELSE IF IsSpace(s[Len(s)]) THEN TrimRight(SubSeq(s, 1, Len(s) - 1)) ELSE s

\* the field as it is, not trimmed
NoTrim(s) == s

Trim(s) == TrimRight(TrimLeft(s))

\* the value parseInt yields when no digit leads the string; it equals no
\* stored version
NaN == -1

\* value of the leading run of decimal digits of s, acc the value so far
RECURSIVE DigitRun(_, _)
DigitRun(s, acc) ==
    IF s = Empty \/ ~IsDigit(Head(s)) THEN acc
    ELSE DigitRun(Tail(s), 10 * acc + DigitVal(Head(s)))

\* parseInt(s): skip leading white space, read the leading digits, ignore
\* whatever follows them (signs are not among the inputs drawn here)
ParseInt(s) ==
    LET t == TrimLeft(s)
    IN  IF t = Empty \/ ~IsDigit(Head(t)) THEN NaN ELSE DigitRun(t, 0)

\* `${version}`: the decimal rendering of a non-negative integer
RECURSIVE ToStr(_)
ToStr(n) ==
    IF n < 10 THEN << Digits[n + 1] >>
    ELSE Append(ToStr(n \div 10), Digits[(n % 10) + 1])

\* the characters of the inputs in the order of their character codes
Alphabet ==
    <<" ", "0", "1", "2", "3", "4", "5", "6", "7", "8", "9", "T", "U",
      "a", "b", "d", "m", "p", "q", "t", "u", "x", "y">>

CharCode(c) == CHOOSE i \in 1..Len(Alphabet) : Alphabet[i] = c

\* a < b for strings: the comparison of MongoDB's sort and of JavaScript's <
RECURSIVE StrLess(_, _)
StrLess(a, b) ==
    IF b = << >> THEN FALSE
    ELSE IF a = << >> THEN TRUE
    ELSE IF Head(a) = Head(b) THEN StrLess(Tail(a), Tail(b))
    ELSE CharCode(Head(a)) < CharCode(Head(b))

LowerChar(c) == IF c = "T" THEN "t" ELSE IF c = "U" THEN "u" ELSE c

\* String.prototype.toLowerCase
ToLowerCase(s) == [i \in 1..Len(s) |-> LowerChar(s[i])]

\* String.prototype.includes
Includes(s, sub) ==
    \E i \in 0..(Len(s) - Len(sub)) : SubSeq(s, i + 1, i + Len(sub)) = sub

----------------------------------------------------------------------------
(* Inputs *)

P1 == << "p" >>
P2 == << "q" >>
FlowA == << "a" >>
TitleA == << "t" >>
ModeA == << "m" >>
DescA == << "d" >>
TextX == << "x" >>
TextY == << "y" >>
FlowB == << "b" >>
TitleB == << "T" >>

PostFields == {"promptId", "flow", "feature", "mode", "type", "prompt"}

\* bodies that pass the required-field loop of POST; flow may be white
\* space only
ValidPostBodies ==
    [promptId : {P1, P2},
     flow     : {Blank, FlowA},
     feature  : {TitleA},
     mode     : {ModeA},
     type     : {DescA},
     prompt   : {TextX}]

\* bodies a caller can send to POST: a complete body, or one with a
\* required field missing
PostBodies ==
    ValidPostBodies \cup
    {[b EXCEPT ![f] = Empty] : b \in {x \in ValidPostBodies : x.flow = FlowA},
                               f \in PostFields}

\* bodies a caller can send to PUT; the dialog sends the four descriptive
\* fields as well, so they are part of the body
PutBodies ==
    [promptId : {Empty, P1, P2},
     flow     : {Blank},
     feature  : {TitleA},
     mode     : {ModeA},
     type     : {DescA},
     prompt   : {Empty, TextY}]

\* the promptId and version query parameters a caller can send to DELETE:
\* a version as the prompt manager renders it, one that is no number, or a
\* request with a parameter missing
DeleteParams ==
    ({P1, P2} \X ({ToStr(v) : v \in 1..MaxDocs} \cup {<< "x" >>}))
    \cup {<<Empty, ToStr(1)>>, <<P1, Empty>>}

----------------------------------------------------------------------------
(* The collection *)

NoResp == [op |-> "NONE", status |-> 0, exists |-> FALSE]

\* a response body without 'error' property
NoError == << >>

\* response bodies: a bare array, an object with an array 'data', or any
\* other single object (held as the one item)
ArrayBody(items) == [kind |-> "array", items |-> items]

DataBody(items) == [kind |-> "data", items |-> items]

ObjectBody(obj) == [kind |-> "object", items |-> << obj >>]

\* a body the prompt manager does not read
NoBody == [kind |-> "object", items |-> << >>]

\* the value of a property that an object does not have, and of a query
\* parameter that the URL does not carry
Undefined == << "undefined" >>

\* a value that JavaScript treats as false in a condition
Falsy(v) == v = Empty \/ v = Undefined

\* the filter set of useState: no filter is set
NoFilters ==
    [search |-> Undefined, flow |-> Undefined, promptTitle |-> Undefined,
     mode |-> Undefined, promptDescription |-> Undefined]

\* the documents of the collection, without their multiplicity
Docs == BagToSet(store)

One(x) == SetToBag({x})

\* collection.find({promptId})
ByPromptId(docs, pid) == {d \in docs : d.promptId = pid}

\* findOne({promptId}) without the sort option: any version can come back
FindLatestUnsorted(docs, pid) == ByPromptId(docs, pid)

\* collection.findOne({promptId}, {sort: {version: -1}}): the documents the
\* call can return; empty when it returns null.  Documents of equal version
\* have no defined order.
FindLatest(docs, pid) ==
    {d \in ByPromptId(docs, pid) :
        \A e \in ByPromptId(docs, pid) : e.version <= d.version}

\* a filter that forgets the version: {promptId}
ByPromptIdAnyVersion(docs, pid, v) == ByPromptId(docs, pid)

\* collection.find({promptId, version})
ByPromptIdVersion(docs, pid, v) ==
    {d \in docs : d.promptId = pid /\ d.version = v}

\* a connection is free for a new request
Free == BagCardinality(pending) + BagCardinality(inbox) < MaxReq

\* a request that may lead to an insert can start
CanBegin == Free /\ inserted + BagCardinality(pending) < MaxDocs

\* NextResponse.json(..., {status}): the handler returns, to a direct
\* caller or to the handler of the prompt manager that sent the request.
\* err is the 'error' property of the body.  No response body of route.ts
\* carries an 'exists' property.
Respond(caller, op, status, err) ==
    IF caller = "api"
    THEN /\ resp' = [op |-> op, status |-> status, exists |-> FALSE]
         /\ UNCHANGED inbox
    ELSE /\ inbox' = inbox (+) One([op |-> op, status |-> status,
                                     exists |-> FALSE, error |-> err,
                                     body |-> NoBody, origin |-> caller,
                                     promptId |-> Undefined])
         /\ UNCHANGED resp

\* the handler awaits insertOne
AwaitInsert(caller, op, newDoc) ==
    /\ pending' = pending (+)
                      One([op |-> op, newDoc |-> newDoc, caller |-> caller])
    /\ UNCHANGED <<resp, inbox>>

----------------------------------------------------------------------------
(* POST: create new prompt version *)

PostRequiredMissing(body) ==
    \/ body.promptId = Empty
    \/ body.flow = Empty
    \/ body.feature = Empty
    \/ body.mode = Empty
    \/ body.type = Empty
    \/ body.prompt = Empty

PostFieldOrder == <<"promptId", "flow", "feature", "mode", "type", "prompt">>

\* `${field} is required` for the first required field that is missing
PostRequiredMessage(body) ==
    LET i == CHOOSE k \in 1..Len(PostFieldOrder) :
                /\ body[PostFieldOrder[k]] = Empty
                /\ \A j \in 1..(k - 1) : body[PostFieldOrder[j]] # Empty
    IN  <<PostFieldOrder[i], "is required">>

PostNewDoc(body, newVersion) ==
    [promptId |-> body.promptId, flow |-> body.flow, feature |-> body.feature,
     mode |-> body.mode, type |-> body.type, version |-> newVersion,
     prompt |-> body.prompt]

\* request.json(), the required-field loop and the findOne of the latest
\* version, up to the await of insertOne
PostBegin(caller, body) ==
    /\ CanBegin
    /\ IF PostRequiredMissing(body)
       THEN /\ Respond(caller, "POST", 400, PostRequiredMessage(body))
            /\ UNCHANGED pending
       ELSE LET found == FindLatest(Docs, body.promptId)
            IN  \/ /\ found = {}
                   /\ AwaitInsert(caller, "POST", PostNewDoc(body, 1))
                \/ \E latest \in found :
                      AwaitInsert(caller, "POST",
                                  PostNewDoc(body, latest.version + 1))
    /\ UNCHANGED <<store, inserted, assigned>>

\* collection.insertOne(newDoc)
InsertOne(newDoc) ==
    /\ store' = store (+) One(newDoc)
    /\ inserted' = inserted + 1
    /\ assigned' = assigned \cup {<<newDoc.promptId, newDoc.version>>}

\* the insert of POST and its response
PostInsert(req) ==
    /\ BagIn(req, pending)
    /\ req.op = "POST"
    /\ InsertOne(req.newDoc)
    /\ pending' = pending (-) One(req)
    /\ Respond(req.caller, "POST", 200, NoError)
    /\ UNCHANGED clientVars

----------------------------------------------------------------------------
(* PUT: update prompt (creates new version) *)

PutNewDoc(latest, body) ==
    [promptId |-> latest.promptId, flow |-> latest.flow,
     feature |-> latest.feature, mode |-> latest.mode, type |-> latest.type,
     version |-> latest.version + 1, prompt |-> body.prompt]

\* request.json(), the check of promptId and prompt and the findOne of the
\* latest version, up to the await of insertOne
PutBegin(caller, body) ==
    /\ CanBegin
    /\ IF body.promptId = Empty \/ body.prompt = Empty
       THEN /\ Respond(caller, "PUT", 400, <<"promptId and prompt are required">>)
            /\ UNCHANGED pending
       ELSE LET found == FindLatest(Docs, body.promptId)
            IN  \/ /\ found = {}
                   /\ Respond(caller, "PUT", 404, <<"Prompt ID not found">>)
                   /\ UNCHANGED pending
                \/ \E latest \in found :
                      AwaitInsert(caller, "PUT", PutNewDoc(latest, body))
    /\ UNCHANGED <<store, inserted, assigned>>

\* the insert of PUT and its response
PutInsert(req) ==
    /\ BagIn(req, pending)
    /\ req.op = "PUT"
    /\ InsertOne(req.newDoc)
    /\ pending' = pending (-) One(req)
    /\ Respond(req.caller, "PUT", 200, NoError)
    /\ UNCHANGED clientVars

----------------------------------------------------------------------------
(* DELETE: delete specific prompt version *)

\* a DELETE that answers like deleteOne but keeps the document
DeleteKeepsDocument(caller, promptId, version) ==
    /\ Free
    /\ IF promptId = Empty \/ version = Empty
       THEN Respond(caller, "DELETE", 400,
                    <<"promptId and version are required">>)
       ELSE IF ByPromptIdVersion(Docs, promptId, ParseInt(version)) = {}
       THEN Respond(caller, "DELETE", 404, <<"Prompt version not found">>)
       ELSE Respond(caller, "DELETE", 200, NoError)
    /\ UNCHANGED <<store, inserted, pending, assigned>>

\* collection.deleteOne({promptId, version: parseInt(version)}): removes at
\* most one matching document
Delete(caller, promptId, version) ==
    /\ Free
    /\ IF promptId = Empty \/ version = Empty
       THEN /\ Respond(caller, "DELETE", 400,
                       <<"promptId and version are required">>)
            /\ UNCHANGED store
       ELSE LET found == ByPromptIdVersion(Docs, promptId, ParseInt(version))
            IN  \/ /\ found = {}
                   /\ Respond(caller, "DELETE", 404,
                              <<"Prompt version not found">>)
                   /\ UNCHANGED store
                \/ \E d \in found :
                      /\ store' = store (-) One(d)
                      /\ Respond(caller, "DELETE", 200, NoError)
    /\ UNCHANGED <<inserted, pending, assigned>>

----------------------------------------------------------------------------
(* GET: retrieve prompts *)


\* the query parameters of a GET without any parameter
NoQuery ==
    [flow |-> Undefined, feature |-> Undefined, mode |-> Undefined,
     type |-> Undefined, version |-> Undefined, promptId |-> Undefined,
     latest |-> FALSE]

\* the query object: promptId alone when it is given, else every one of
\* flow, feature, mode and type that is given
MatchesQuery(d, q) ==
    IF ~Falsy(q.promptId) THEN d.promptId = q.promptId
    ELSE /\ Falsy(q.flow) \/ d.flow = q.flow
         /\ Falsy(q.feature) \/ d.feature = q.feature
         /\ Falsy(q.mode) \/ d.mode = q.mode
         /\ Falsy(q.type) \/ d.type = q.type

\* the sequences that hold the documents of a bag, each as often as the bag
SeqsOfBag(b) ==
    LET n == BagCardinality(b)
    IN  {sq \in [1..n -> BagToSet(b)] :
            \A d \in BagToSet(b) :
               Cardinality({i \in 1..n : sq[i] = d}) = CopiesIn(d, b)}

\* sort({flow: 1, feature: 1, mode: 1, type: 1, version: -1}): d sorts
\* before e
ListingBefore(d, e) ==
    IF d.flow # e.flow THEN StrLess(d.flow, e.flow)
    ELSE IF d.feature # e.feature THEN StrLess(d.feature, e.feature)
    ELSE IF d.mode # e.mode THEN StrLess(d.mode, e.mode)
    ELSE IF d.type # e.type THEN StrLess(d.type, e.type)
    ELSE d.version > e.version

\* the orders find(query).sort(...).toArray() can return; documents that
\* agree in every sort key have no defined order
SortedListings(b) ==
    {sq \in SeqsOfBag(b) :
        \A i \in 1..Len(sq), j \in 1..Len(sq) :
           i < j => ~ListingBefore(sq[j], sq[i])}

NotFoundResult ==
    [status |-> 404, error |-> << "Prompt not found" >>,
     body |-> ObjectBody([error |-> "Prompt not found"])]

OkResult(body) == [status |-> 200, error |-> NoError, body |-> body]

\* the answers of GET for the documents docs (a bag) and the query
\* parameters q: one version, the latest version, or the listing
RouteGet(docs, q) ==
    LET matching == {d \in BagToSet(docs) : MatchesQuery(d, q)}
    IN  IF ~Falsy(q.version) /\ ~q.latest
        THEN LET found == {d \in matching : d.version = ParseInt(q.version)}
             IN  IF found = {} THEN {NotFoundResult}
                 ELSE {OkResult(ObjectBody(d)) : d \in found}
        ELSE IF \/ q.latest
                \/ ~Falsy(q.flow) \/ ~Falsy(q.feature) \/ ~Falsy(q.mode)
                \/ ~Falsy(q.type) \/ ~Falsy(q.promptId)
        THEN LET found == {d \in matching :
                             \A e \in matching : e.version <= d.version}
             IN  IF found = {} THEN {NotFoundResult}
                 ELSE {OkResult(ObjectBody(d)) : d \in found}
        ELSE {OkResult(DataBody(sq)) :
                 sq \in SortedListings(
                          [d \in matching |-> CopiesIn(d, docs)])}

\* the answer of the catch block of GET
GetErrorResult ==
    [status |-> 500, error |-> << "Internal server error" >>,
     body |-> ObjectBody([error |-> "Internal server error"])]

----------------------------------------------------------------------------
(* Storage errors: the catch block of POST, PUT and DELETE *)

ErrInternal == << "Internal server error" >>

Ops == {"POST", "PUT", "DELETE"}

\* getDatabase, findOne or deleteOne throws before anything is written: the
\* handler answers 500 from its catch block
StorageError(caller, op) ==
    /\ Free
    /\ Respond(caller, op, 500, ErrInternal)
    /\ UNCHANGED <<store, inserted, pending, assigned>>

\* the effect on the collection of an insertOne that throws: the document
\* was not written, or it was written and the acknowledgement was lost
FailedInsert(newDoc) ==
    \/ /\ store' = store
       /\ inserted' = inserted + 1
       /\ assigned' = assigned
    \/ InsertOne(newDoc)

\* an insertOne whose failure leaves the handler waiting for a new attempt
InsertErrorRetried(req) ==
    /\ BagIn(req, pending)
    /\ FailedInsert(req.newDoc)
    /\ pending' = pending
    /\ Respond(req.caller, req.op, 500, ErrInternal)
    /\ UNCHANGED clientVars

\* insertOne throws: the handler answers 500 from its catch block and ends
InsertError(req) ==
    /\ BagIn(req, pending)
    /\ FailedInsert(req.newDoc)
    /\ pending' = pending (-) One(req)
    /\ Respond(req.caller, req.op, 500, ErrInternal)
    /\ UNCHANGED clientVars

\* deleteOne throws after the document was removed (the acknowledgement
\* was lost): the handler answers 500 from its catch block
DeleteError(caller, promptId, version) ==
    /\ Free
    /\ promptId # Empty /\ version # Empty
    /\ \E d \in ByPromptIdVersion(Docs, promptId, ParseInt(version)) :
          store' = store (-) One(d)
    /\ Respond(caller, "DELETE", 500, ErrInternal)
    /\ UNCHANGED <<inserted, pending, assigned>>

----------------------------------------------------------------------------
(* The prompt manager: state and helpers *)

\* setError(null)
Null == << "null" >>

\* the mode the form is reset to
DefaultMode == << "U" >>

ErrRequired == << "Please fill in all required fields" >>

\* the message of the TypeError of reading 'trim' of undefined
ErrTrimOfUndefined == << "Cannot read properties of undefined" >>

ErrSave == << "Failed to save prompt" >>

ErrLoad == << "Failed to load prompts: 500" >>

ErrLoadNotFound == << "Failed to load prompts: 404" >>

\* `Failed to load prompts: ${response.status}`
LoadErrorMessage(status) == IF status = 404 THEN ErrLoadNotFound ELSE ErrLoad


\* the form as useState and the reset of the dialog set it
EmptyForm ==
    [promptId |-> Empty, flow |-> Empty, promptTitle |-> Empty,
     mode |-> DefaultMode, promptDescription |-> Empty, prompt |-> Empty]

\* a form with every required field filled in
FilledForm ==
    [flow |-> FlowA, promptTitle |-> TitleA, promptDescription |-> DescA,
     prompt |-> TextY]

FormFields == {"flow", "promptTitle", "promptDescription", "prompt"}

\* what the user can have typed into the four required inputs: all filled
\* in, or one of them left empty or holding white space only
TypedForms ==
    {FilledForm} \cup
    {[FilledForm EXCEPT ![f] = v] : f \in FormFields, v \in {Empty, Blank}}

\* the conditions of handleSubmit in the order the code evaluates them:
\* "ok", "required" (the Error that is thrown) or "typeerror" (trim is read
\* from undefined)
RECURSIVE ValidateFrom(_, _)
ValidateFrom(fd, fields) ==
    IF fields = << >> THEN "ok"
    ELSE LET v == fd[Head(fields)]
         IN  IF v = Undefined THEN "typeerror"
             ELSE IF Trim(v) = Empty THEN "required"
             ELSE ValidateFrom(fd, Tail(fields))

Validate(fd) ==
    ValidateFrom(fd, <<"flow", "promptTitle", "promptDescription", "prompt">>)

\* a payload that never carries the promptId
SubmitBodyWithoutPromptId(fd, editing) ==
    [promptId |-> Empty,
     flow     |-> fd.flow,
     feature  |-> Empty,
     mode     |-> fd.mode,
     type     |-> Empty,
     prompt   |-> fd.prompt]

\* JSON.stringify(payload) as request.json() of the route reads it: the
\* route reads promptId, flow, feature, mode, type and prompt, and the
\* payload has no feature and no type property
SubmitBody(fd, editing) ==
    [promptId |-> IF editing /\ ~Falsy(fd.promptId) THEN fd.promptId ELSE Empty,
     flow     |-> fd.flow,
     feature  |-> Empty,
     mode     |-> fd.mode,
     type     |-> Empty,
     prompt   |-> fd.prompt]

\* getFeaturesByFlow(prompts, flow)
GetFeaturesByFlow(ps, flow) ==
    {ps[i].feature : i \in {k \in 1..Len(ps) : ps[k].flow = flow}} \ {Empty}

\* the effect on [formData.flow, prompts]: a title that is not among the
\* titles of the flow is cleared together with the description
FlowEffect(fd, ps) ==
    IF ~Falsy(fd.flow) /\ ps # << >>
    THEN LET promptTitles == GetFeaturesByFlow(ps, fd.flow)
         IN  IF /\ ~Falsy(fd.promptTitle)
                /\ fd.promptTitle \notin promptTitles
                /\ promptTitles # {}
             THEN [fd EXCEPT !.promptTitle = Empty, !.promptDescription = Empty]
             ELSE fd
    ELSE fd

\* the URLSearchParams of loadPrompts as the route reads them: flow and
\* mode are appended when they are set; the route reads no promptTitle and
\* no promptDescription parameter
LoadQuery(f) ==
    [NoQuery EXCEPT !.flow = IF Falsy(f.flow) THEN Undefined ELSE f.flow,
                    !.mode = IF Falsy(f.mode) THEN Undefined ELSE f.mode]

\* the responses a loadPrompts with the filter set f can get: an answer of
\* the route for the documents stored, or the 500 of its catch block
GetResponses(origin, f) ==
    {[op |-> "GET", status |-> r.status, exists |-> FALSE,
      error |-> r.error, body |-> r.body, origin |-> origin,
      promptId |-> Undefined] :
        r \in RouteGet(store, LoadQuery(f)) \cup {GetErrorResult}}

\* result.message === "Prompt not found"
IsNotFoundMessage(obj) ==
    "message" \in DOMAIN obj /\ obj.message = "Prompt not found"

\* the promptsData that loadPrompts derives from the parsed response
NormalizePrompts(body) ==
    IF body.kind \in {"array", "data"} THEN body.items
    ELSE IF IsNotFoundMessage(body.items[1]) THEN << >>
    ELSE body.items

\* the search of filteredPrompts over one record; a property the record
\* does not have counts as ''.  The documents of the route have no
\* promptTitle and no promptDescription property.
SearchText(p, field) == IF field \in DOMAIN p THEN ToLowerCase(p[field]) ELSE Empty

SearchMatches(p, search) ==
    \E field \in {"promptId", "flow", "promptTitle", "mode",
                   "promptDescription", "prompt"} :
       Includes(SearchText(p, field), ToLowerCase(search))

\* filteredPrompts: the records the list shows
FilteredPrompts(ps, f) ==
    LET Keep(p) == Falsy(f.search) \/ SearchMatches(p, f.search)
    IN  SelectSeq(ps, Keep)

\* the prompt manager can start a fetch
CanFetch == BagCardinality(pending) + BagCardinality(inbox) < MaxFetch

\* loadPrompts up to its await of fetch, with the GET the route answers;
\* f is the filter set of the render that calls it and inb is the inbox
\* the response is added to
LoadPrompts(origin, f, inb) ==
    /\ loading' = TRUE
    /\ error' = Null
    /\ \E r \in GetResponses(origin, f) : inbox' = inb (+) One(r)

----------------------------------------------------------------------------
(* The dashboard: time windows and the artifacts route *)

Last24Hours == "Last 24 Hours"

Last7Days == "Last 7 Days"

CustomRange == "Custom Range"

\* a day that is not selected
NoDate == -1

\* customDateRange of useState
NoRange == [from |-> NoDate, to |-> NoDate]

\* the data table while the data tab is not shown
NoTable == << "unmounted" >>

TableUnmounted == table = NoTable /\ tableInbox = EmptyBag

\* the day of the clock, and the days the custom range picker offers
Today == 10

RangeInputs == {[from |-> 4, to |-> NoDate], [from |-> 4, to |-> 6]}

\* the number of documents of collection 'artifacts'
ArtifactCount == 12

\* the documents of collection 'artifacts', newest first: all but the last
\* one were created today
ArtifactDocs ==
    [i \in 1..ArtifactCount |->
        [artifactId |-> i,
         created_at |-> IF i < ArtifactCount THEN Today ELSE Today - 5]]

\* getTimeFilter for a preset window: hours or days back from now
GetTimeFilter(selectedWindow) ==
    IF selectedWindow = Last24Hours
    THEN [fromTime |-> Today - 1, toTime |-> Today]
    ELSE IF selectedWindow = Last7Days
    THEN [fromTime |-> Today - 7, toTime |-> Today]
    ELSE [fromTime |-> Today, toTime |-> Today]

\* the time range fetchAnalyticsData asks for
FetchTimeRange(windowType, dateRange) ==
    IF windowType = CustomRange
    THEN [fromTime |-> dateRange.from, toTime |-> dateRange.to]
    ELSE GetTimeFilter(windowType)

\* result_json of the artifacts route
ResultJson(doc) ==
    [artifact_id |-> doc.artifactId, status |-> "success",
     created_at |-> doc.created_at]

\* clientType of getDatabase(env)
ClientType(env) ==
    IF env = "MONGODB_URI_PROD" \/ env = "prod" THEN "prod" ELSE "dev"

\* the stores getDatabase(env) can return the database of: the one of
\* clientType, or dev when there is no prod client or its connection fails
GetDatabase(env) ==
    IF ClientType(env) = "prod" THEN {"prod", "dev"} ELSE {"dev"}

\* getDatabase() of the artifacts route: env is the default 'MONGODB_URI'
ArtifactStores == GetDatabase("MONGODB_URI")

\* GET /api/artifacts: the documents created in the range with the store
\* they were read from, or the 500 of the catch block
ArtifactResponses(t) ==
    LET InRange(doc) == t.fromTime <= doc.created_at /\ doc.created_at <= t.toTime
        found == SelectSeq(ArtifactDocs, InRange)
    IN  {[status |-> 200, store |-> s,
          body |-> [i \in 1..Len(found) |-> ResultJson(found[i])]] :
            s \in ArtifactStores}
          \cup {[status |-> 500, store |-> "none", body |-> << >>]}

ErrInvalidRange == << "Invalid time range" >>

ErrHttp == << "HTTP error! status: 500" >>

\* fetches of the page in flight
InFlight == BagCardinality(inbox) + BagCardinality(dashInbox)

\* k more fetches can start
CanLoad(k) == InFlight + k <= MaxLoads

----------------------------------------------------------------------------
(* The prompt manager: handlers *)

\* the button 'Create New Prompt' (DialogTrigger)
OpenCreate ==
    /\ isEditing' = FALSE
    /\ editingPrompt' = Null
    /\ formData' = EmptyForm
    /\ isDialogOpen' = TRUE
    /\ UNCHANGED <<error, loading, prompts>>
    /\ UNCHANGED <<listVars, dashVars>>
    /\ UNCHANGED serverVars

\* the onChange handlers of the four required inputs, in the order of the
\* form; the effect on formData.flow runs before the title is typed
TypeForm(typed) ==
    /\ isDialogOpen
    /\ formData' = [formData EXCEPT !.flow = typed.flow,
                                    !.promptTitle = typed.promptTitle,
                                    !.promptDescription = typed.promptDescription,
                                    !.prompt = typed.prompt]
    /\ formData' # formData
    /\ UNCHANGED <<isEditing, editingPrompt, isDialogOpen, error, loading, prompts>>
    /\ UNCHANGED <<listVars, dashVars>>
    /\ UNCHANGED serverVars

\* the button 'Cancel' and onOpenChange(false)
CloseDialog ==
    /\ isDialogOpen
    /\ isDialogOpen' = FALSE
    /\ UNCHANGED <<formData, isEditing, editingPrompt, error, loading, prompts>>
    /\ UNCHANGED <<listVars, dashVars>>
    /\ UNCHANGED serverVars

\* prompt.<name>, undefined when the record has no such property
Field(p, name) == IF name \in DOMAIN p THEN p[name] ELSE Undefined

\* the assignments of handleEdit(prompt), with the effect on formData.flow;
\* the documents of the route have no promptTitle and no promptDescription
\* property
OpenForEdit(prompt) ==
    /\ formData' = FlowEffect(
                     [promptId |-> Field(prompt, "promptId"),
                      flow |-> Field(prompt, "flow"),
                      promptTitle |-> Field(prompt, "promptTitle"),
                      mode |-> Field(prompt, "mode"),
                      promptDescription |-> Field(prompt, "promptDescription"),
                      prompt |-> Field(prompt, "prompt")], prompts)
    /\ isEditing' = TRUE
    /\ editingPrompt' = prompt
    /\ isDialogOpen' = TRUE

\* the button 'Edit' of a record of the list: handleEdit(prompt)
HandleEdit(prompt) ==
    /\ \E i \in 1..Len(prompts) : prompts[i] = prompt
    /\ OpenForEdit(prompt)
    /\ UNCHANGED <<error, loading, prompts>>
    /\ UNCHANGED <<listVars, dashVars>>
    /\ UNCHANGED serverVars

\* the button 'Use as Template' of a record of the version history:
\* setViewingVersions(null) and handleEdit(version)
UseAsTemplate(version) ==
    /\ viewingVersions # Null
    /\ \E i \in 1..Len(versions) : versions[i] = version
    /\ viewingVersions' = Null
    /\ OpenForEdit(version)
    /\ UNCHANGED <<error, loading, prompts, filters, versions>>
    /\ UNCHANGED dashVars
    /\ UNCHANGED serverVars

\* the method of the request of handleSubmit
SubmitMethod(editing) == IF editing THEN "PUT" ELSE "POST"

\* handleSubmit up to its await of fetch, with the part of the route's
\* handler that runs before the handler awaits its insert or returns
HandleSubmit ==
    /\ isDialogOpen
    /\ IF Validate(formData) = "required"
       THEN /\ error' = ErrRequired
            /\ UNCHANGED serverVars
       ELSE IF Validate(formData) = "typeerror"
       THEN /\ error' = ErrTrimOfUndefined
            /\ UNCHANGED serverVars
       ELSE /\ CanFetch
            /\ IF SubmitMethod(isEditing) = "PUT"
               THEN PutBegin("handleSubmit", SubmitBody(formData, isEditing))
               ELSE PostBegin("handleSubmit", SubmitBody(formData, isEditing))
            /\ UNCHANGED error
    /\ UNCHANGED <<formData, isEditing, editingPrompt, isDialogOpen, loading, prompts>>
    /\ UNCHANGED <<listVars, dashVars>>

\* handleSubmit from the response of its fetch on: the 'exists' case, the
\* error case, or the reset of the dialog and loadPrompts
SubmitResponse(msg) ==
    /\ BagIn(msg, inbox)
    /\ msg.op \in {"POST", "PUT"}
    /\ IF msg.op = "POST" /\ msg.exists
       THEN /\ inbox' = inbox (-) One(msg)
            /\ UNCHANGED uiVars
       ELSE IF msg.status # 200
       THEN /\ inbox' = inbox (-) One(msg)
            /\ error' = IF msg.error = NoError THEN ErrSave ELSE msg.error
            /\ UNCHANGED <<formData, isEditing, editingPrompt, isDialogOpen, loading, prompts>>
       ELSE /\ formData' = EmptyForm
            /\ isDialogOpen' = FALSE
            /\ isEditing' = FALSE
            /\ editingPrompt' = Null
            /\ LoadPrompts("handleSubmit", filters, inbox (-) One(msg))
            /\ UNCHANGED prompts
    /\ UNCHANGED <<store, inserted, pending, resp, assigned>>
    /\ UNCHANGED <<listVars, dashVars>>

\* the effect on [environment, filters]: the environment or a filter has
\* changed
EffectLoadPrompts ==
    /\ CanFetch
    /\ LoadPrompts("effect", filters, inbox)
    /\ UNCHANGED <<formData, isEditing, editingPrompt, isDialogOpen, prompts>>
    /\ UNCHANGED <<store, inserted, pending, resp, assigned>>
    /\ UNCHANGED <<listVars, dashVars>>

\* loadPrompts from the response of its fetch on, then what its caller
\* does after 'await loadPrompts()', then the effect on prompts
LoadResponse(msg) ==
    /\ BagIn(msg, inbox)
    /\ msg.op = "GET"
    /\ msg.origin # "loadVersions"
    /\ inbox' = inbox (-) One(msg)
    /\ prompts' = IF msg.status = 200 THEN NormalizePrompts(msg.body)
                  ELSE << >>
    /\ loading' = FALSE
    /\ error' = IF msg.origin = "handleSubmit" THEN Null
                ELSE IF msg.status = 200 THEN error
                ELSE LoadErrorMessage(msg.status)
    /\ formData' = FlowEffect(formData, prompts')
    /\ UNCHANGED <<isEditing, editingPrompt, isDialogOpen>>
    /\ UNCHANGED <<store, inserted, pending, resp, assigned>>
    /\ UNCHANGED <<listVars, dashVars>>

----------------------------------------------------------------------------
(* Specification of the route under direct callers *)

DirectPost(body) == PostBegin("api", body) /\ UNCHANGED clientVars

DirectPut(body) == PutBegin("api", body) /\ UNCHANGED clientVars

DirectDelete(promptId, version) ==
    Delete("api", promptId, version) /\ UNCHANGED clientVars

\* the prompt manager before it is mounted
InitUnmounted ==
    /\ inbox = EmptyBag
    /\ formData = EmptyForm
    /\ isEditing = FALSE
    /\ editingPrompt = Null
    /\ isDialogOpen = FALSE
    /\ error = Null
    /\ loading = FALSE
    /\ prompts = << >>
    /\ filters = NoFilters
    /\ versions = << >>
    /\ viewingVersions = Null

\* the dashboard before it is mounted
InitDashUnmounted ==
    /\ data = << >>
    /\ dashLoading = FALSE
    /\ dashError = Null
    /\ dashInbox = EmptyBag
    /\ environment = "dev"
    /\ timeWindow = Last24Hours
    /\ customDateRange = NoRange

Init ==
    /\ store = EmptyBag
    /\ inserted = 0
    /\ pending = EmptyBag
    /\ resp = NoResp
    /\ assigned = {}
    /\ InitUnmounted
    /\ InitDashUnmounted
    /\ activeTab = "overview"
    /\ TableUnmounted

PostInsertStep == \E req \in BagToSet(pending) : PostInsert(req)

PutInsertStep == \E req \in BagToSet(pending) : PutInsert(req)

DirectStorageError(op) == StorageError("api", op) /\ UNCHANGED clientVars

InsertErrorStep == \E req \in BagToSet(pending) : InsertError(req)

DirectDeleteError(promptId, version) ==
    DeleteError("api", promptId, version) /\ UNCHANGED clientVars

Next ==
    \/ \E body \in PostBodies : DirectPost(body)
    \/ PostInsertStep
    \/ \E body \in PutBodies : DirectPut(body)
    \/ PutInsertStep
    \/ \E q \in DeleteParams : DirectDelete(q[1], q[2])
    \/ \E op \in Ops : DirectStorageError(op)
    \/ InsertErrorStep
    \/ \E q \in DeleteParams : DirectDeleteError(q[1], q[2])

Spec == Init /\ [][Next]_vars

TypeOK ==
    /\ inserted \in 0..MaxDocs
    /\ BagCardinality(pending) <= MaxReq
    /\ \A d \in Docs : d.version \in 1..MaxDocs

----------------------------------------------------------------------------
(* Specification of the prompt manager in front of the route *)

\* a record a direct POST has stored
SeedDoc ==
    [promptId |-> P1, flow |-> FlowA, feature |-> TitleA, mode |-> ModeA,
     type |-> DescA, version |-> 1, prompt |-> TextX]

\* the stores the prompt manager is mounted on: the empty collection, or
\* the collection after one direct POST
SeedStores == {EmptyBag, One(SeedDoc)}

\* the prompt manager after it is mounted: the effect on
\* [environment, filters] has called loadPrompts
InitUI ==
    /\ store \in SeedStores
    /\ inserted = BagCardinality(store)
    /\ assigned = {<<d.promptId, d.version>> : d \in BagToSet(store)}
    /\ pending = EmptyBag
    /\ resp = NoResp
    /\ formData = EmptyForm
    /\ isEditing = FALSE
    /\ editingPrompt = Null
    /\ isDialogOpen = FALSE
    /\ error = Null
    /\ loading = TRUE
    /\ prompts = << >>
    /\ filters = NoFilters
    /\ versions = << >>
    /\ viewingVersions = Null
    /\ inbox \in {One(r) : r \in GetResponses("effect", NoFilters)}
    /\ InitDashUnmounted
    /\ activeTab = "prompts"
    /\ TableUnmounted

SubmitResponseStep == \E msg \in BagToSet(inbox) : SubmitResponse(msg)

LoadResponseStep == \E msg \in BagToSet(inbox) : LoadResponse(msg)

HandleEditStep ==
    \E prompt \in {prompts[i] : i \in 1..Len(prompts)} : HandleEdit(prompt)

NextUI ==
    \/ OpenCreate
    \/ \E typed \in TypedForms : TypeForm(typed)
    \/ CloseDialog
    \/ HandleEditStep
    \/ HandleSubmit
    \/ PutInsertStep
    \/ SubmitResponseStep
    \/ EffectLoadPrompts
    \/ LoadResponseStep

SpecUI == InitUI /\ [][NextUI]_vars

----------------------------------------------------------------------------
(* Specification of the prompt list under changing filters *)

DocA1 == SeedDoc

DocA2 == [SeedDoc EXCEPT !.version = 2, !.prompt = TextY]

DocB2 ==
    [promptId |-> P2, flow |-> FlowB, feature |-> TitleB, mode |-> ModeA,
     type |-> DescA, version |-> 2, prompt |-> TextY]

\* the collections the list is loaded from: what POST and DELETE can leave
\* of two versions of one prompt and a second version of another
ListStores == {SetToBag(ds) : ds \in SUBSET {DocA1, DocA2, DocB2}}

\* what the user can type into the search input and into the description
\* filter
SearchInputs == {Blank, TextX}

DescriptionInputs == {Blank, DescA}

\* getUniqueFlows(prompts)
GetUniqueFlows(ps) == {ps[i].flow : i \in 1..Len(ps)} \ {Empty}

\* the modes of the mode filter: the predefined one and those of the list
AvailableModes(ps) == {DefaultMode} \cup {ps[i].mode : i \in 1..Len(ps)}

\* setFilters and the effect on [environment, filters], which calls
\* loadPrompts with the new filter set
ChangeFilters(f) ==
    /\ activeTab = "prompts"
    /\ f # filters
    /\ CanLoad(1)
    /\ filters' = f
    /\ LoadPrompts("effect", f, inbox)
    /\ UNCHANGED <<formData, isEditing, editingPrompt, isDialogOpen, prompts,
                   versions, viewingVersions>>
    /\ UNCHANGED <<store, inserted, pending, resp, assigned>>
    /\ UNCHANGED dashVars

\* the search input
SetSearchFilter(v) ==
    /\ v \in SearchInputs
    /\ ChangeFilters([filters EXCEPT !.search = v])

\* the flow select: 'all_flows' or a flow of the list
SetFlowFilter(v) ==
    /\ v \in {Undefined} \cup GetUniqueFlows(prompts)
    /\ ChangeFilters([filters EXCEPT !.flow = v,
                                     !.promptTitle = Undefined,
                                     !.promptDescription = Undefined])

\* the title select, enabled when a flow is selected: 'all_promptTitles'
\* or a title of the flow
SetPromptTitleFilter(v) ==
    /\ ~Falsy(filters.flow)
    /\ v \in {Undefined} \cup GetFeaturesByFlow(prompts, filters.flow)
    /\ ChangeFilters([filters EXCEPT !.promptTitle = v,
                                     !.promptDescription = Undefined])

\* the mode select: 'all_modes' or an available mode
SetModeFilter(v) ==
    /\ v \in {Undefined} \cup AvailableModes(prompts)
    /\ ChangeFilters([filters EXCEPT !.mode = v])

\* the description input
SetDescriptionFilter(v) ==
    /\ v \in DescriptionInputs
    /\ ChangeFilters([filters EXCEPT !.promptDescription = v])

\* the prompt manager after it is mounted on one of the collections
InitList ==
    /\ store \in ListStores
    /\ inserted = BagCardinality(store)
    /\ assigned = {<<d.promptId, d.version>> : d \in BagToSet(store)}
    /\ pending = EmptyBag
    /\ resp = NoResp
    /\ formData = EmptyForm
    /\ isEditing = FALSE
    /\ editingPrompt = Null
    /\ isDialogOpen = FALSE
    /\ error = Null
    /\ loading = TRUE
    /\ prompts = << >>
    /\ filters = NoFilters
    /\ versions = << >>
    /\ viewingVersions = Null
    /\ inbox \in {One(r) : r \in GetResponses("effect", NoFilters)}
    /\ InitDashUnmounted
    /\ activeTab = "prompts"
    /\ TableUnmounted

NextList ==
    \/ \E v \in SearchInputs : SetSearchFilter(v)
    \/ \E v \in {Undefined, FlowA, FlowB} : SetFlowFilter(v)
    \/ \E v \in {Undefined, TitleA, TitleB} : SetPromptTitleFilter(v)
    \/ \E v \in {Undefined, DefaultMode, ModeA} : SetModeFilter(v)
    \/ \E v \in DescriptionInputs : SetDescriptionFilter(v)
    \/ LoadResponseStep

SpecList == InitList /\ [][NextList]_vars

----------------------------------------------------------------------------
(* Claims about the prompt store, checked under Spec *)

SameTuple(d, e) == d.flow = e.flow /\ d.feature = e.feature /\ d.mode = e.mode

\* the invocations that a step has added to the pending ones
Started == {q \in BagToSet(pending') : CopiesIn(q, pending') > CopiesIn(q, pending)}

\* C1: a successful PUT on a promptId whose highest stored version is V
\* when the handler reads the store inserts exactly one new record, with
\* that promptId and version V+1, and every step of the handler leaves all
\* records that were stored in place and unchanged.
UpdateAppendsNextVersion ==
    [][ /\ \A body \in PutBodies :
              (pending' # pending /\ PutBegin("api", body)) =>
                 /\ store' = store
                 /\ \A q \in Started :
                       /\ q.op = "PUT"
                       /\ q.newDoc.promptId = body.promptId
                       /\ \E d \in Docs : /\ d.promptId = body.promptId
                                          /\ q.newDoc.version = d.version + 1
                       /\ \A d \in Docs : d.promptId = body.promptId =>
                                             d.version < q.newDoc.version
        /\ \A req \in BagToSet(pending) :
              PutInsert(req) =>
                 /\ store \sqsubseteq store'
                 /\ BagCardinality(store') = BagCardinality(store) + 1
                 /\ CopiesIn(req.newDoc, store') = CopiesIn(req.newDoc, store) + 1
                 /\ resp'.op = "PUT" /\ resp'.status = 200
      ]_vars

\* a PUT has answered 200 and its record at V+1 sits next to the record at V
UpdateAppendsNextVersionWitness ==
    /\ resp.op = "PUT" /\ resp.status = 200
    /\ \E d \in Docs, e \in Docs :
          /\ d.promptId = e.promptId
          /\ d.version = e.version + 1
          /\ d.prompt = TextY
          /\ e.prompt = TextX

\* C2: no two stored records share the same (promptId, version), also when
\* requests for one promptId interleave between their read and their insert.
VersionUniquePerPromptId ==
    /\ \A d \in Docs : CopiesIn(d, store) = 1
    /\ \A d \in Docs, e \in Docs :
          (d.promptId = e.promptId /\ d.version = e.version) => d = e

\* C3: over a sequence of create, update and deleteVersion operations on
\* one promptId, an edit that starts while no other request is in flight is
\* given a version greater than every version an earlier insert used for
\* that promptId, also after the highest version has been deleted.
VersionNeverHandedOutTwice ==
    [][ pending = EmptyBag =>
           \A q \in Started :
              \A a \in assigned :
                 a[1] = q.newDoc.promptId => a[2] < q.newDoc.version
      ]_vars

\* C4: a successful POST stores exactly one new record, whose promptId is
\* the promptId of no record already stored and whose version is 1.
CreateIsFreshVersionOne ==
    [][ /\ \A body \in PostBodies :
              (pending' # pending /\ PostBegin("api", body)) =>
                 /\ \A q \in Started : q.newDoc.version = 1
                 /\ \A d \in Docs : d.promptId # body.promptId
        /\ \A req \in BagToSet(pending) :
              PostInsert(req) =>
                 /\ BagCardinality(store') = BagCardinality(store) + 1
                 /\ req.newDoc.version = 1
                 /\ \A e \in Docs : e.promptId # req.newDoc.promptId
      ]_vars

\* C5: a POST whose (flow, promptTitle, mode) matches a stored record is
\* answered with a conflict result carrying exists = true, and creates no
\* record and no pending insert.
CreateConflictRejected ==
    [][ \A body \in PostBodies :
           ( /\ \A f \in PostFields : body[f] # Empty
             /\ \E d \in Docs : SameTuple(d, body)
             /\ PostBegin("api", body) ) =>
              /\ resp'.op = "POST"
              /\ resp'.exists
              /\ pending' = pending
              /\ store' = store
      ]_vars

\* C6: at most one promptId is associated with any (flow, promptTitle, mode)
\* tuple in the store.
OnePromptIdPerTuple ==
    \A d \in Docs, e \in Docs : SameTuple(d, e) => d.promptId = e.promptId

\* C7: all stored records of one promptId carry the same flow, promptTitle,
\* mode and promptDescription.
DescriptiveFieldsFixedPerPromptId ==
    \A d \in Docs, e \in Docs :
        d.promptId = e.promptId =>
            /\ SameTuple(d, e)
            /\ d.type = e.type

\* C8: DELETE of a stored (promptId, version) leaves no record with that
\* pair and leaves every other record in place and unchanged.
DeleteRemovesExactlyThePair ==
    [][ \A pid \in {P1, P2}, n \in 1..MaxDocs :
           ( /\ \E d \in Docs : d.promptId = pid /\ d.version = n
             /\ Delete("api", pid, ToStr(n)) ) =>
              /\ \A d \in BagToSet(store') :
                    ~(d.promptId = pid /\ d.version = n)
              /\ \A d \in Docs :
                    ~(d.promptId = pid /\ d.version = n) =>
                       CopiesIn(d, store') = CopiesIn(d, store)
              /\ store' \sqsubseteq store
      ]_vars

\* C9: a PUT that carries a prompt text for a promptId without stored
\* version, and a DELETE of a (promptId, version) pair that is not stored,
\* are answered 404 and change neither the store nor the pending inserts.
NotFoundLeavesStore ==
    [][ /\ \A body \in PutBodies :
              ( /\ body.promptId # Empty /\ body.prompt # Empty
                /\ \A d \in Docs : d.promptId # body.promptId
                /\ PutBegin("api", body) ) =>
                 /\ resp'.op = "PUT" /\ resp'.status = 404
                 /\ store' = store
                 /\ pending' = pending
        /\ \A pid \in {P1, P2}, n \in 1..MaxDocs :
              ( /\ \A d \in Docs : ~(d.promptId = pid /\ d.version = n)
                /\ Delete("api", pid, ToStr(n)) ) =>
                 /\ resp'.op = "DELETE" /\ resp'.status = 404
                 /\ store' = store
                 /\ pending' = pending
      ]_vars

\* a request was answered 404 while the store holds records of another
\* version or promptId
NotFoundLeavesStoreWitness ==
    /\ resp.status = 404
    /\ resp.op \in {"PUT", "DELETE"}
    /\ store # EmptyBag

\* C20: a DELETE of the only stored version of a promptId is answered 200
\* and leaves no record of that promptId, while the records of every other
\* promptId stay as they are; a PUT for that promptId that follows the
\* DELETE is answered 404 and stores nothing.
DeleteOfOnlyVersionForgetsPrompt ==
    [][ /\ \A pid \in {P1, P2}, n \in 1..MaxDocs :
              ( /\ \E d \in Docs :
                      /\ d.promptId = pid /\ d.version = n
                      /\ CopiesIn(d, store) = 1
                      /\ \A e \in Docs : e.promptId = pid => e = d
                /\ Delete("api", pid, ToStr(n)) ) =>
                 /\ resp' = [op |-> "DELETE", status |-> 200, exists |-> FALSE]
                 /\ \A d \in BagToSet(store') : d.promptId # pid
                 /\ \A d \in Docs :
                       d.promptId # pid => CopiesIn(d, store') = CopiesIn(d, store)
        /\ \A body \in PutBodies :
              ( /\ resp = [op |-> "DELETE", status |-> 200, exists |-> FALSE]
                /\ body.promptId # Empty /\ body.prompt # Empty
                /\ \A d \in Docs : d.promptId # body.promptId
                /\ PutBegin("api", body) ) =>
                 /\ resp' = [op |-> "PUT", status |-> 404, exists |-> FALSE]
                 /\ store' = store
                 /\ pending' = pending
      ]_vars

\* the one record ever stored for 'p' was deleted, the record of 'q' is
\* still stored
DeleteOfOnlyVersionForgetsPromptWitness ==
    /\ resp = [op |-> "DELETE", status |-> 200, exists |-> FALSE]
    /\ inserted = 2
    /\ pending = EmptyBag
    /\ \E v \in 1..MaxDocs : <<P1, v>> \in assigned
    /\ \A d \in Docs : d.promptId = P2
    /\ BagCardinality(store) = 1

----------------------------------------------------------------------------
(* Claims about the prompt dialog, checked under SpecUI *)

\* the string has no character other than white space
OnlySpaces(v) == v # Undefined /\ \A i \in 1..Len(v) : v[i] = " "

----------------------------------------------------------------------------
(* Claims about storage errors, checked under Spec *)

----------------------------------------------------------------------------
(* Claims about the visible prompt list, checked under SpecList *)

\* the list the prompt manager renders
VisiblePrompts == FilteredPrompts(prompts, filters)

\* the records the list is computed from: the documents stored
InputRecords == BagToSet(store)

\* nothing is in flight and the list on display is the successful answer to
\* a load with the current filters
ShowsCurrentList ==
    /\ inbox = EmptyBag
    /\ ~loading
    /\ error = Null
    /\ \E r \in RouteGet(store, LoadQuery(filters)) :
          r.status = 200 /\ prompts = NormalizePrompts(r.body)

\* a text filter that is absent or empty after trim counts as not set
TextUnset(v) == v = Undefined \/ OnlySpaces(v)

AnyFilterActive(f) ==
    \/ ~Falsy(f.flow)
    \/ ~Falsy(f.promptTitle)
    \/ ~Falsy(f.mode)
    \/ ~TextUnset(f.promptDescription)
    \/ ~TextUnset(f.search)

\* the fields of a record joined by spaces
RECURSIVE JoinFields(_, _)
JoinFields(d, fields) ==
    IF fields = << >> THEN Empty
    ELSE IF Len(fields) = 1 THEN d[Head(fields)]
    ELSE d[Head(fields)] \o Blank \o JoinFields(d, Tail(fields))

\* a record satisfies every filter that is set
Satisfies(d, f) ==
    /\ Falsy(f.flow) \/ d.flow = f.flow
    /\ Falsy(f.promptTitle) \/ d.feature = f.promptTitle
    /\ Falsy(f.mode) \/ d.mode = f.mode
    /\ TextUnset(f.promptDescription)
         \/ Includes(ToLowerCase(d.type),
                     ToLowerCase(TrimRight(TrimLeft(f.promptDescription))))
    /\ TextUnset(f.search)
         \/ Includes(ToLowerCase(JoinFields(d, <<"promptId", "flow", "feature",
                                                "mode", "type", "prompt">>)),
                     ToLowerCase(TrimRight(TrimLeft(f.search))))

\* the records of a sequence, with the number of times each occurs
BagOfSeq(s) ==
    [d \in {s[i] : i \in 1..Len(s)} |-> Cardinality({i \in 1..Len(s) : s[i] = d})]

\* C12: with no filter set (a search or description filter that is empty
\* after trim counts as not set) the visible list holds exactly one record
\* for each promptId of the input, and it is the one with the greatest
\* version of that promptId.
NoFilterShowsLatestPerPromptId ==
    (ShowsCurrentList /\ ~AnyFilterActive(filters)) =>
        /\ \A i \in 1..Len(VisiblePrompts) :
              /\ VisiblePrompts[i] \in InputRecords
              /\ \A d \in InputRecords :
                    d.promptId = VisiblePrompts[i].promptId
                        => d.version <= VisiblePrompts[i].version
        /\ \A d \in InputRecords :
              Cardinality({i \in 1..Len(VisiblePrompts) :
                             VisiblePrompts[i].promptId = d.promptId}) = 1

\* C13: with at least one filter set the visible list is exactly the input
\* records that satisfy every filter that is set, without deduplication by
\* promptId: a promptId with k matching versions has k records in the list.
FilterShowsEveryMatchingVersion ==
    (ShowsCurrentList /\ AnyFilterActive(filters)) =>
        \A d \in InputRecords \cup {VisiblePrompts[i] : i \in 1..Len(VisiblePrompts)} :
            CopiesIn(d, BagOfSeq(VisiblePrompts))
                = IF Satisfies(d, filters) THEN CopiesIn(d, store) ELSE 0

\* the title of a record; a record without one counts as ''
TitleOf(p) == IF "feature" \in DOMAIN p THEN p.feature ELSE Empty

\* C14: the visible list is ordered by version descending, and records of
\* equal version by promptTitle ascending.
VisibleSortedByVersionThenTitle ==
    ShowsCurrentList =>
        \A i, j \in 1..Len(VisiblePrompts) :
            i < j =>
                /\ VisiblePrompts[i].version >= VisiblePrompts[j].version
                /\ VisiblePrompts[i].version = VisiblePrompts[j].version
                      => ~StrLess(TitleOf(VisiblePrompts[j]), TitleOf(VisiblePrompts[i]))

----------------------------------------------------------------------------
(* The dashboard: handlers *)

\* fetchAnalyticsData(windowType, dateRange), called when the responses in
\* flight are inb: it fails on an incomplete range before it sends anything,
\* and otherwise awaits the response of the route
FetchAnalyticsData(windowType, dateRange, inb) ==
    LET t == FetchTimeRange(windowType, dateRange)
    IN  IF t.fromTime = NoDate \/ t.toTime = NoDate
        THEN /\ dashError' = ErrInvalidRange
             /\ data' = << >>
             /\ dashLoading' = FALSE
             /\ dashInbox' = inb
        ELSE /\ dashLoading' = TRUE
             /\ dashError' = Null
             /\ data' = data
             /\ \E r \in ArtifactResponses(t) : dashInbox' = inb (+) One(r)

\* the condition under which the effect and handleTabChange fetch
RangeUsable == timeWindow # CustomRange
                  \/ (customDateRange.from # NoDate /\ customDateRange.to # NoDate)

\* the prompt manager's state when it mounts
MountPromptManager ==
    /\ formData' = EmptyForm
    /\ isEditing' = FALSE
    /\ editingPrompt' = Null
    /\ isDialogOpen' = FALSE
    /\ prompts' = << >>
    /\ filters' = NoFilters
    /\ versions' = << >>
    /\ viewingVersions' = Null

\* handleTimeWindowChange: only a change from the custom range to a preset
\* fetches
HandleTimeWindowChange(value) ==
    /\ value # timeWindow
    /\ timeWindow' = value
    /\ IF value # CustomRange /\ timeWindow = CustomRange
       THEN CanLoad(1) /\ FetchAnalyticsData(value, customDateRange, dashInbox)
       ELSE UNCHANGED <<data, dashLoading, dashError, dashInbox>>
    /\ UNCHANGED <<environment, customDateRange, activeTab>>
    /\ UNCHANGED <<uiVars, serverVars, tableVars>>

\* handleCustomDateRangeChange of the picker, shown for the custom range
HandleCustomDateRangeChange(range) ==
    /\ timeWindow = CustomRange
    /\ range # customDateRange
    /\ customDateRange' = range
    /\ IF range.from # NoDate /\ range.to # NoDate
       THEN CanLoad(1) /\ FetchAnalyticsData(CustomRange, range, dashInbox)
       ELSE UNCHANGED <<data, dashLoading, dashError, dashInbox>>
    /\ UNCHANGED <<environment, timeWindow, activeTab>>
    /\ UNCHANGED <<uiVars, serverVars, tableVars>>

\* the Refresh button
RefreshAnalytics ==
    /\ CanLoad(1)
    /\ FetchAnalyticsData(timeWindow, customDateRange, dashInbox)
    /\ UNCHANGED <<environment, timeWindow, customDateRange, activeTab>>
    /\ UNCHANGED <<uiVars, serverVars, tableVars>>

\* handleEnvironmentChange and the effects on environment: of the dashboard
\* on the overview tab, of the prompt manager on its tab
HandleEnvironmentChange(value) ==
    /\ value # environment
    /\ environment' = value
    /\ (activeTab = "prompts" \/ RangeUsable) => CanLoad(1)
    /\ IF activeTab = "overview" /\ RangeUsable
       THEN FetchAnalyticsData(timeWindow, customDateRange, dashInbox)
       ELSE UNCHANGED <<data, dashLoading, dashError, dashInbox>>
    /\ IF activeTab = "prompts"
       THEN LoadPrompts("effect", filters, inbox)
       ELSE UNCHANGED <<loading, error, inbox>>
    /\ UNCHANGED <<formData, isEditing, editingPrompt, isDialogOpen, prompts, listVars>>
    /\ UNCHANGED <<timeWindow, customDateRange, activeTab>>
    /\ UNCHANGED <<store, inserted, pending, resp, assigned>>
    /\ UNCHANGED tableVars

\* handleTabChange to the prompts tab: the prompt manager mounts and its
\* effect loads the list
OpenPromptsTab ==
    /\ activeTab # "prompts"
    /\ activeTab' = "prompts"
    /\ CanLoad(1)
    /\ MountPromptManager
    /\ LoadPrompts("effect", NoFilters, EmptyBag)
    /\ UNCHANGED <<data, dashLoading, dashError, dashInbox>>
    /\ UNCHANGED <<environment, timeWindow, customDateRange>>
    /\ UNCHANGED <<store, inserted, pending, resp, assigned>>
    /\ UNCHANGED tableVars

\* handleTabChange to the overview tab: the prompt manager unmounts, and
\* handleTabChange and the effect on activeTab both call fetchAnalyticsData
OpenOverviewTab ==
    /\ activeTab # "overview"
    /\ activeTab' = "overview"
    /\ MountPromptManager
    /\ loading' = FALSE
    /\ error' = Null
    /\ inbox' = EmptyBag
    /\ IF RangeUsable
       THEN /\ BagCardinality(dashInbox) + 2 <= MaxLoads
            /\ \E r \in ArtifactResponses(FetchTimeRange(timeWindow, customDateRange)) :
                  FetchAnalyticsData(timeWindow, customDateRange, dashInbox (+) One(r))
       ELSE UNCHANGED <<data, dashLoading, dashError, dashInbox>>
    /\ UNCHANGED <<environment, timeWindow, customDateRange>>
    /\ UNCHANGED <<store, inserted, pending, resp, assigned>>
    /\ UNCHANGED tableVars

\* a fetchAnalyticsData that applies a response only when it answers the
\* window now selected
AnalyticsResponseGuarded(msg) ==
    /\ BagIn(msg, dashInbox)
    /\ dashInbox' = dashInbox (-) One(msg)
    /\ IF msg \in ArtifactResponses(FetchTimeRange(timeWindow, customDateRange))
       THEN IF msg.status = 200
            THEN data' = msg.body /\ dashError' = dashError
            ELSE data' = << >> /\ dashError' = ErrHttp
       ELSE UNCHANGED <<data, dashError>>
    /\ dashLoading' = FALSE
    /\ UNCHANGED <<environment, timeWindow, customDateRange, activeTab>>
    /\ UNCHANGED <<uiVars, serverVars, tableVars>>

\* fetchAnalyticsData from the response on
AnalyticsResponse(msg) ==
    /\ BagIn(msg, dashInbox)
    /\ dashInbox' = dashInbox (-) One(msg)
    /\ IF msg.status = 200
       THEN data' = msg.body /\ dashError' = dashError
       ELSE data' = << >> /\ dashError' = ErrHttp
    /\ dashLoading' = FALSE
    /\ UNCHANGED <<environment, timeWindow, customDateRange, activeTab>>
    /\ UNCHANGED <<uiVars, serverVars, tableVars>>

----------------------------------------------------------------------------
(* Specification of the dashboard page: overview and prompts tab *)

\* the dashboard after it is mounted: the effect has called
\* fetchAnalyticsData
InitDash ==
    /\ store = SetToBag({DocA1, DocA2, DocB2})
    /\ inserted = BagCardinality(store)
    /\ assigned = {<<d.promptId, d.version>> : d \in BagToSet(store)}
    /\ pending = EmptyBag
    /\ resp = NoResp
    /\ inbox = EmptyBag
    /\ formData = EmptyForm
    /\ isEditing = FALSE
    /\ editingPrompt = Null
    /\ isDialogOpen = FALSE
    /\ error = Null
    /\ loading = FALSE
    /\ prompts = << >>
    /\ filters = NoFilters
    /\ versions = << >>
    /\ viewingVersions = Null
    /\ data = << >>
    /\ dashLoading = TRUE
    /\ dashError = Null
    /\ dashInbox \in {One(r) : r \in ArtifactResponses(GetTimeFilter(Last24Hours))}
    /\ environment = "dev"
    /\ timeWindow = Last24Hours
    /\ customDateRange = NoRange
    /\ activeTab = "overview"
    /\ TableUnmounted

AnalyticsResponseStep == \E msg \in BagToSet(dashInbox) : AnalyticsResponse(msg)

NextDash ==
    \/ \E value \in {Last24Hours, Last7Days, CustomRange} : HandleTimeWindowChange(value)
    \/ \E range \in RangeInputs : HandleCustomDateRangeChange(range)
    \/ RefreshAnalytics
    \/ \E value \in {"dev", "prod"} : HandleEnvironmentChange(value)
    \/ OpenPromptsTab
    \/ OpenOverviewTab
    \/ AnalyticsResponseStep
    \/ \E v \in {Undefined, FlowA, FlowB} : SetFlowFilter(v)
    \/ LoadResponseStep

SpecDash == InitDash /\ [][NextDash]_vars

----------------------------------------------------------------------------
(* Claims about the fetches of the dashboard page, checked under SpecDash *)

\* C15: when fetches of the same list overlap, each successful response
\* that is applied replaces the snapshot on display by its payload, whatever
\* else is in flight and whichever request was sent first; so after all
\* responses are applied the snapshot is the payload of the response that
\* arrived last, which can be the one of the older request.
LastResponseWins ==
    [][ /\ \A msg \in BagToSet(dashInbox) :
              (AnalyticsResponse(msg) /\ msg.status = 200) => data' = msg.body
        /\ \A msg \in BagToSet(inbox) :
              (LoadResponse(msg) /\ msg.status = 200)
                  => prompts' = NormalizePrompts(msg.body) ]_vars

\* the list was loaded without a filter and then for flow 'a'; the response
\* of the older request arrived last and is on display
LastResponseWinsWitness ==
    /\ activeTab = "prompts"
    /\ filters.flow = FlowA
    /\ inbox = EmptyBag
    /\ ~loading
    /\ error = Null
    /\ Len(prompts) = 3
    /\ \A r \in RouteGet(store, LoadQuery(filters)) :
          r.status = 200 => Len(NormalizePrompts(r.body)) = 1

\* C16: when a fetch of the artifact data or of the prompt list fails, an
\* error message is displayed and the records on display stay as they were.
FailedFetchKeepsRecords ==
    [][ /\ \A msg \in BagToSet(dashInbox) :
              (AnalyticsResponse(msg) /\ msg.status # 200)
                  => dashError' # Null /\ data' = data
        /\ \A msg \in BagToSet(inbox) :
              (LoadResponse(msg) /\ msg.status # 200)
                  => error' # Null /\ prompts' = prompts ]_vars

----------------------------------------------------------------------------
(* Claims about the prompt manager's errors, checked under SpecUI *)

\* C17: every error raised while the prompt manager handles a user action
\* (a failed save, a failed load, a failed reload after a successful save)
\* leaves a non-empty error message on display when the handler has
\* finished.
HandlerErrorsAreDisplayed ==
    [][ /\ \A msg \in BagToSet(inbox) :
              (SubmitResponse(msg) /\ ~msg.exists /\ msg.status # 200)
                  => error' # Null /\ error' # Empty
        /\ \A msg \in BagToSet(inbox) :
              (LoadResponse(msg) /\ msg.status # 200)
                  => error' # Null /\ error' # Empty ]_vars

----------------------------------------------------------------------------
(* The overview's status cards, and their specification *)

\* d.status === value; a record without status has the status undefined
StatusIs(d, value) == "status" \in DOMAIN d /\ d.status = value

\* data.filter(d => d.status === value).length
CountStatus(records, value) ==
    Cardinality({i \in 1..Len(records) : StatusIs(records[i], value)})

\* stats of StatsOverview
StatsOverview(records) ==
    [total |-> Len(records),
     success |-> CountStatus(records, "success"),
     failed |-> CountStatus(records, "failed"),
     pending |-> CountStatus(records, "pending")]

\* stats of StatusBreakdown
StatusBreakdown(records) ==
    [success |-> CountStatus(records, "success"),
     failed |-> CountStatus(records, "failed"),
     pending |-> CountStatus(records, "pending")]

\* artifact records as UserStoryData allows them: with one of the three
\* statuses, with another one, or without status
StatusRecords ==
    {[artifact_id |-> "n", status |-> st] :
        st \in {"success", "failed", "pending", "archived"}}
      \cup {[artifact_id |-> "n"]}

RECURSIVE ListsUpTo(_, _)
ListsUpTo(S, n) ==
    IF n = 0 THEN {<< >>}
    ELSE LET shorter == ListsUpTo(S, n - 1)
         IN  shorter \cup {Append(l, x) : l \in shorter, x \in S}

\* the dashboard awaits a response with any list of records
InitStats ==
    /\ store = EmptyBag
    /\ inserted = 0
    /\ assigned = {}
    /\ pending = EmptyBag
    /\ resp = NoResp
    /\ inbox = EmptyBag
    /\ InitUnmounted
    /\ data = << >>
    /\ dashLoading = TRUE
    /\ dashError = Null
    /\ dashInbox \in {One([status |-> 200, body |-> l]) :
                         l \in ListsUpTo(StatusRecords, MaxRecords)}
    /\ environment = "dev"
    /\ timeWindow = Last24Hours
    /\ customDateRange = NoRange
    /\ activeTab = "overview"
    /\ TableUnmounted

NextStats == AnalyticsResponseStep

SpecStats == InitStats /\ [][NextStats]_vars

\* the sum of the status counts a card shows
CountsShown(stats) ==
    stats.success + stats.failed + stats.pending
        + (IF "unknown" \in DOMAIN stats THEN stats.unknown ELSE 0)

\* C18: the status counts (success, failed, pending and unknown, which
\* counts the records with a missing or unrecognized status) sum to the
\* number of records.
StatusCountsCoverEveryRecord ==
    /\ CountsShown(StatsOverview(data)) = Len(data)
    /\ CountsShown(StatusBreakdown(data)) = Len(data)

----------------------------------------------------------------------------
(* The version history, and the specification of the response shapes *)

\* the absent-record sentinel of the backend
SentinelBody == ObjectBody([message |-> "Prompt not found"])

\* the record lists of the responses
ListInputs == {<< >>, <<DocA1>>, <<DocA1, DocA2>>, <<DocA2, DocB2, DocA1>>}

\* the shapes a list response can have: a bare array, an object with an
\* array 'data', a single record, the sentinel
ResponseBodies ==
    {ArrayBody(l) : l \in ListInputs}
      \cup {DataBody(l) : l \in ListInputs}
      \cup {ObjectBody(d) : d \in {DocA1, DocB2}}
      \cup {SentinelBody}

\* b.version || 0
VersionOrZero(p) == IF "version" \in DOMAIN p THEN p.version ELSE 0

\* versionsData.sort((a, b) => (b.version || 0) - (a.version || 0)): a
\* stable sort, greatest version first
RECURSIVE SortVersions(_)
SortVersions(list) ==
    IF list = << >> THEN << >>
    ELSE LET rest == SortVersions(Tail(list))
             IsBefore(p) == VersionOrZero(p) > VersionOrZero(Head(list))
             k == Cardinality({i \in 1..Len(rest) : IsBefore(rest[i])})
         IN  SubSeq(rest, 1, k) \o << Head(list) >> \o SubSeq(rest, k + 1, Len(rest))

\* the versionsData that loadVersions derives from the parsed response
NormalizeVersions(body) == SortVersions(body.items)

ErrLoadVersions == << "Failed to load versions" >>

\* a list response of either shape, or a failure, for the handler origin
ListResponses(origin, promptId) ==
    {[op |-> "GET", status |-> 200, exists |-> FALSE, error |-> NoError,
      body |-> b, origin |-> origin, promptId |-> promptId] :
        b \in ResponseBodies}
      \cup {[op |-> "GET", status |-> 500, exists |-> FALSE,
             error |-> ErrInternal, body |-> NoBody, origin |-> origin,
             promptId |-> promptId]}

\* the button 'Versions' of a record of the list: loadVersions up to its
\* await of fetch
LoadVersionsFrom(promptId, responses) ==
    /\ activeTab = "prompts"
    /\ CanFetch
    /\ \E r \in responses : inbox' = inbox (+) One(r)
    /\ UNCHANGED uiVars
    /\ UNCHANGED <<store, inserted, pending, resp, assigned>>
    /\ UNCHANGED dashVars

LoadVersions(promptId) ==
    LoadVersionsFrom(promptId, ListResponses("loadVersions", promptId))

\* loadVersions from the response of its fetch on
VersionsResponse(msg) ==
    /\ BagIn(msg, inbox)
    /\ msg.origin = "loadVersions"
    /\ inbox' = inbox (-) One(msg)
    /\ IF msg.status = 200
       THEN /\ versions' = NormalizeVersions(msg.body)
            /\ viewingVersions' = msg.promptId
            /\ UNCHANGED error
       ELSE /\ error' = ErrLoadVersions
            /\ UNCHANGED <<versions, viewingVersions>>
    /\ UNCHANGED <<formData, isEditing, editingPrompt, isDialogOpen, loading, prompts, filters>>
    /\ UNCHANGED <<store, inserted, pending, resp, assigned>>
    /\ UNCHANGED dashVars

\* the prompt manager after it is mounted; the load of the list is answered
\* with a response of any shape
InitNormalize ==
    /\ store = EmptyBag
    /\ inserted = 0
    /\ assigned = {}
    /\ pending = EmptyBag
    /\ resp = NoResp
    /\ formData = EmptyForm
    /\ isEditing = FALSE
    /\ editingPrompt = Null
    /\ isDialogOpen = FALSE
    /\ error = Null
    /\ loading = TRUE
    /\ prompts = << >>
    /\ filters = NoFilters
    /\ versions = << >>
    /\ viewingVersions = Null
    /\ inbox \in {One(r) : r \in ListResponses("effect", Undefined)}
    /\ InitDashUnmounted
    /\ activeTab = "prompts"
    /\ TableUnmounted

LoadVersionsStep ==
    \E i \in 1..Len(prompts) :
        "promptId" \in DOMAIN prompts[i] /\ LoadVersions(prompts[i].promptId)

VersionsResponseStep == \E msg \in BagToSet(inbox) : VersionsResponse(msg)

NextNormalize ==
    \/ LoadResponseStep
    \/ LoadVersionsStep
    \/ VersionsResponseStep

SpecNormalize == InitNormalize /\ [][NextNormalize]_vars

\* the list a response body stands for: the array, the array 'data', no
\* record for the sentinel, else the single object
NormalizedList(body) ==
    IF body.kind \in {"array", "data"} THEN body.items
    ELSE IF body = SentinelBody THEN << >>
    ELSE body.items

\* C19: the list response is normalized in the same way for the prompt
\* list and for the version history: a bare array gives the array, an
\* object with an array 'data' gives data, the sentinel
\* {message: "Prompt not found"} gives the empty list and any other object
\* a list of one.
ResponseNormalizedEverywhere ==
    [][ \A msg \in BagToSet(inbox) :
           /\ (LoadResponse(msg) /\ msg.status = 200)
                 => BagOfSeq(prompts') = BagOfSeq(NormalizedList(msg.body))
           /\ (VersionsResponse(msg) /\ msg.status = 200)
                 => BagOfSeq(versions') = BagOfSeq(NormalizedList(msg.body)) ]_vars

----------------------------------------------------------------------------
(* Specification of the dialog with the version history *)

\* the history responses of this specification: two records out of
\* order, the sentinel, or a failure
HistoryResponses(promptId) ==
    {r \in ListResponses("loadVersions", promptId) :
        r.body \in {ArrayBody(<<DocA1, DocA2>>), SentinelBody, NoBody}}

LoadHistoryStep ==
    \E i \in 1..Len(prompts) :
        LoadVersionsFrom(prompts[i].promptId,
                         HistoryResponses(prompts[i].promptId))

UseAsTemplateStep ==
    \E version \in {versions[i] : i \in 1..Len(versions)} :
        UseAsTemplate(version)

\* the user fills in the four required inputs
TypeFilledForm == TypeForm(FilledForm)

NextDialog ==
    \/ OpenCreate
    \/ TypeFilledForm
    \/ CloseDialog
    \/ HandleEditStep
    \/ UseAsTemplateStep
    \/ HandleSubmit
    \/ PutInsertStep
    \/ SubmitResponseStep
    \/ LoadResponseStep
    \/ LoadHistoryStep
    \/ VersionsResponseStep

SpecDialog == InitUI /\ [][NextDialog]_vars

\* the promptId the request of a submit carries; Empty when the payload
\* has no promptId
SentPromptId == SubmitBody(formData, isEditing).promptId

\* the promptId of the record opened for editing, Empty when it has none
EditedPromptId ==
    IF Falsy(Field(editingPrompt, "promptId")) THEN Empty
    ELSE editingPrompt.promptId

\* the request a step of handleSubmit has sent to the route: it is awaiting
\* its insert or has been answered
SentBy(op) ==
    \/ \E req \in BagToSet(pending') :
          /\ req.caller = "handleSubmit" /\ req.op = op
          /\ CopiesIn(req, pending') > CopiesIn(req, pending)
    \/ \E msg \in BagToSet(inbox') :
          /\ msg.origin = "handleSubmit" /\ msg.op = op
          /\ CopiesIn(msg, inbox') > CopiesIn(msg, inbox)

\* C21: a submit in create mode sends a POST without promptId, a submit in
\* edit mode sends a PUT whose promptId is the one of the record opened for
\* editing through 'Edit' or 'Use as Template', and 'Create New Prompt'
\* opens the dialog in create mode whatever was edited before.
SubmitFollowsDialogMode ==
    [][ /\ OpenCreate => ~isEditing'
        /\ (HandleSubmit /\ Validate(formData) = "ok" /\ ~isEditing)
              => SentBy("POST") /\ SentPromptId = Empty
        /\ (HandleSubmit /\ Validate(formData) = "ok" /\ isEditing)
              => SentBy("PUT") /\ SentPromptId = EditedPromptId ]_vars

\* a PUT of the dialog in edit mode, carrying the promptId of the record
\* opened for editing, awaits its insert
SubmitFollowsDialogModeWitness ==
    /\ isEditing
    /\ \E req \in BagToSet(pending) :
          /\ req.caller = "handleSubmit"
          /\ req.op = "PUT"
          /\ req.newDoc.promptId = EditedPromptId

----------------------------------------------------------------------------
(* The hourly charts, and their specification *)

\* the number of hours the charts initialise: for (let i = 0; i < 24; i++)
HoursPerDay == 24

\* s.padStart(2, '0')
PadStart2(s) ==
    IF Len(s) >= 2 THEN s ELSE IF Len(s) = 1 THEN <<"0">> \o s ELSE <<"0", "0">>

\* the keys of hourMap: i.toString().padStart(2, '0') for the 24 hours
HourKeys == {PadStart2(ToStr(i)) : i \in 0..(HoursPerDay - 1)}

\* item.time is truthy
HasTime(item) == "time" \in DOMAIN item /\ item.time # Empty

\* item.time.match(/^(\d{1,2}):/): the group that matched, Null for no match
HourMatch(time) ==
    IF Len(time) >= 3 /\ IsDigit(time[1]) /\ IsDigit(time[2]) /\ time[3] = ":"
    THEN SubSeq(time, 1, 2)
    ELSE IF Len(time) >= 2 /\ IsDigit(time[1]) /\ time[2] = ":"
    THEN SubSeq(time, 1, 1)
    ELSE Null

\* the hour a record is counted under by HourActivity and by the newer
\* UsageByTime, Null when the record is skipped
HourOf(time) ==
    LET hour == IF HourMatch(time) # Null THEN PadStart2(HourMatch(time))
                ELSE IF Len(time) >= 2
                THEN PadStart2(SelectSeq(SubSeq(time, 1, 2), IsDigit))
                ELSE Null
    IN  IF hour = Null THEN Null
        ELSE IF ParseInt(hour) = NaN \/ ParseInt(hour) < 0 \/ ParseInt(hour) > 23
        THEN <<"0", "0">>
        ELSE hour

\* byHour of HourActivity and of the newer UsageByTime: the count of every
\* key of hourMap
ByHour(records) ==
    [h \in HourKeys |->
        Cardinality({i \in 1..Len(records) :
                        HasTime(records[i]) /\ HourOf(records[i].time) = h})]

\* item.time.slice(0, 2)
HourSlice(time) == SubSeq(time, 1, IF Len(time) < 2 THEN Len(time) ELSE 2)

\* byHour of components/UsageByTime: hourMap.get(hour) || 0 for the 24
\* keys, where hourMap counts the records by time.slice(0, 2)
ByHourSlice(records) ==
    [h \in HourKeys |->
        Cardinality({i \in 1..Len(records) :
                        HasTime(records[i]) /\ HourSlice(records[i].time) = h})]

\* the time strings of the records: hours with one and with two digits,
\* an hour out of range, no hour, a single character
TimeInputs ==
    { <<"9", ":", "0", "5">>, <<"2", "3", ":", "5", "9">>,
      <<"2", "4", ":", "0", "0">>, <<"a", "b", "d">>, <<"9">> }

\* artifact records with a time string, and one without
TimeRecords ==
    {[artifact_id |-> "n", time |-> t] : t \in TimeInputs}
      \cup {[artifact_id |-> "n"]}

\* the dashboard awaits a response with any list of records
InitHours ==
    /\ store = EmptyBag
    /\ inserted = 0
    /\ assigned = {}
    /\ pending = EmptyBag
    /\ resp = NoResp
    /\ inbox = EmptyBag
    /\ InitUnmounted
    /\ data = << >>
    /\ dashLoading = TRUE
    /\ dashError = Null
    /\ dashInbox \in {One([status |-> 200, body |-> l]) :
                         l \in ListsUpTo(TimeRecords, MaxRecords)}
    /\ environment = "dev"
    /\ timeWindow = Last24Hours
    /\ customDateRange = NoRange
    /\ activeTab = "overview"
    /\ TableUnmounted

NextHours == AnalyticsResponseStep

SpecHours == InitHours /\ [][NextHours]_vars

RECURSIVE SumOver(_, _)
SumOver(counts, keys) ==
    IF keys = {} THEN 0
    ELSE LET k == CHOOSE x \in keys : TRUE
         IN  counts[k] + SumOver(counts, keys \ {k})

\* the bucket the rule gives a time string that starts with one or two
\* digits and a colon: the digits padded to two, 00 for an hour above 23
PaddedHour(time) ==
    LET k == IF time[2] = ":" THEN 1 ELSE 2
        run == PadStart2(SubSeq(time, 1, k))
    IN  IF ParseInt(run) > 23 THEN <<"0", "0">> ELSE run

StartsWithHour(time) ==
    \/ Len(time) >= 2 /\ IsDigit(time[1]) /\ time[2] = ":"
    \/ Len(time) >= 3 /\ IsDigit(time[1]) /\ IsDigit(time[2]) /\ time[3] = ":"

\* the records on display that have a time string
Timed == {i \in 1..Len(data) : HasTime(data[i])}

\* C22: every record with a time string is counted in exactly one of the
\* 24 buckets 00..23 (the leading one or two digits before ':' padded to
\* two, bucket 00 when there is no such hour or it is outside 0..23), so
\* the 24 counts sum to the number of records with a time string.
HourBucketsCoverEveryRecord ==
    /\ DOMAIN ByHour(data) = HourKeys /\ Cardinality(HourKeys) = 24
    /\ SumOver(ByHour(data), HourKeys) = Cardinality(Timed)
    /\ SumOver(ByHourSlice(data), HourKeys) = Cardinality(Timed)
    /\ \A i \in Timed :
          LET bucket == IF StartsWithHour(data[i].time)
                        THEN PaddedHour(data[i].time) ELSE <<"0", "0">>
          IN  /\ ByHour(<<data[i]>>)[bucket] = 1
              /\ ByHourSlice(<<data[i]>>)[bucket] = 1

----------------------------------------------------------------------------
(* The per-project charts, and their specification *)

UnnamedProject == << "Unnamed Project" >>

\* item.project_name is truthy
HasProject(item) == "project_name" \in DOMAIN item /\ item.project_name # Empty

\* item.project_name || 'Unnamed Project'
ProjectName(item) ==
    IF HasProject(item) THEN item.project_name ELSE UnnamedProject

\* the keys of a Map or of an object in the order they were first set
RECURSIVE FirstSeen(_)
FirstSeen(names) ==
    IF names = << >> THEN << >>
    ELSE LET before == FirstSeen(SubSeq(names, 1, Len(names) - 1))
             last == names[Len(names)]
         IN  IF \E i \in 1..Len(before) : before[i] = last
             THEN before ELSE Append(before, last)

\* the entry of one project: its records counted, its users as a set
ProjectEntry(records, name) ==
    LET mine == {i \in 1..Len(records) : ProjectName(records[i]) = name}
    IN  [name |-> name,
         count |-> Cardinality(mine),
         users |-> Cardinality({records[i].user_email : i \in
                      {k \in mine : "user_email" \in DOMAIN records[k]
                                       /\ records[k].user_email # Empty}})]

\* entries.sort((a, b) => b.count - a.count): a stable sort, greatest
\* count first
RECURSIVE SortByCount(_)
SortByCount(list) ==
    IF list = << >> THEN << >>
    ELSE LET rest == SortByCount(Tail(list))
             IsBefore(p) == p.count > Head(list).count
             k == Cardinality({i \in 1..Len(rest) : IsBefore(rest[i])})
         IN  SubSeq(rest, 1, k) \o << Head(list) >> \o SubSeq(rest, k + 1, Len(rest))

\* projectData of ProjectActivity
ProjectActivity(records) ==
    LET names == FirstSeen([i \in 1..Len(records) |-> ProjectName(records[i])])
    IN  SortByCount([j \in 1..Len(names) |->
                        ProjectEntry(records, names[j])])

\* .slice(0, 5) of TopProjects
TopCount == 5

\* topProjects of TopProjects: only the records with a project_name are
\* counted
TopProjects(records) ==
    LET named == SelectSeq(records, HasProject)
        names == FirstSeen([i \in 1..Len(named) |-> named[i].project_name])
        sorted == SortByCount([j \in 1..Len(names) |->
                                  ProjectEntry(named, names[j])])
    IN  SubSeq(sorted, 1, IF Len(sorted) < TopCount THEN Len(sorted) ELSE TopCount)

\* artifact records of two projects and of none, with and without a user
ProjectRecords ==
    {[artifact_id |-> "n", project_name |-> n] : n \in {P1, P2}}
      \cup {[artifact_id |-> "n", project_name |-> n, user_email |-> TextX] :
               n \in {P1, P2}}
      \cup {[artifact_id |-> "n"], [artifact_id |-> "n", user_email |-> TextX]}

\* the dashboard awaits a response with any list of records
InitProjects ==
    /\ store = EmptyBag
    /\ inserted = 0
    /\ assigned = {}
    /\ pending = EmptyBag
    /\ resp = NoResp
    /\ inbox = EmptyBag
    /\ InitUnmounted
    /\ data = << >>
    /\ dashLoading = TRUE
    /\ dashError = Null
    /\ dashInbox \in {One([status |-> 200, body |-> l]) :
                         l \in ListsUpTo(ProjectRecords, MaxRecords)}
    /\ environment = "dev"
    /\ timeWindow = Last24Hours
    /\ customDateRange = NoRange
    /\ activeTab = "overview"
    /\ TableUnmounted

NextProjects == AnalyticsResponseStep

SpecProjects == InitProjects /\ [][NextProjects]_vars

\* a rollup puts every record on display in exactly one bucket, the one of
\* its project name, and lists the buckets by non-increasing count
CoversEveryRecord(rollup) ==
    /\ \A i \in 1..Len(data) :
          Cardinality({j \in 1..Len(rollup) :
                          rollup[j].name = ProjectName(data[i])}) = 1
    /\ \A j \in 1..Len(rollup) :
          rollup[j].count =
              Cardinality({i \in 1..Len(data) :
                              ProjectName(data[i]) = rollup[j].name})
    /\ \A j \in 1..(Len(rollup) - 1) : rollup[j].count >= rollup[j + 1].count

\* C23: the per-project rollup puts every record in exactly one bucket
\* ("Unnamed Project" when the record has no project name), the counts sum
\* to the number of records, and the buckets are in non-increasing order of
\* count.
ProjectRollupCoversEveryRecord ==
    /\ CoversEveryRecord(ProjectActivity(data))
    /\ CoversEveryRecord(TopProjects(data))

----------------------------------------------------------------------------
(* The search of the prompt list *)

\* the fields the search reads, in the order of the code
SearchFields ==
    <<"promptId", "flow", "promptTitle", "mode", "promptDescription", "prompt">>

\* the fields of a record that are present, joined by single spaces
RECURSIVE JoinPresent(_, _)
JoinPresent(p, fields) ==
    IF fields = << >> THEN Empty
    ELSE LET rest == JoinPresent(p, Tail(fields))
         IN  IF Head(fields) \notin DOMAIN p THEN rest
             ELSE IF rest = Empty THEN p[Head(fields)]
             ELSE p[Head(fields)] \o Blank \o rest

\* the record passes the search filter of the list
PassesSearch(p) == FilteredPrompts(<<p>>, filters) # << >>

\* C24: a record passes the search filter exactly when the search text,
\* trimmed and lower-cased, is a substring of the lower-cased string that
\* joins the present fields of the record with single spaces; a search
\* text that is empty after trimming filters nothing.
SearchIsTrimmedSubstringOfJoinedFields ==
    \A i \in 1..Len(prompts) :
        LET text == IF TextUnset(filters.search) THEN Empty
                    ELSE ToLowerCase(TrimRight(TrimLeft(filters.search)))
        IN  PassesSearch(prompts[i])
              <=> Includes(ToLowerCase(JoinPresent(prompts[i], SearchFields)), text)

----------------------------------------------------------------------------
(* The loading flags *)

\* a load of the prompt list is in flight
ListLoadInFlight ==
    \E msg \in BagToSet(inbox) : msg.op = "GET" /\ msg.origin # "loadVersions"

\* C25: the loading flag of a component is true exactly when at least one
\* fetch of that component is in flight, also when fetches overlap and
\* finish in any order.
LoadingIffFetchInFlight ==
    /\ dashLoading <=> dashInbox # EmptyBag
    /\ activeTab = "prompts" => (loading <=> ListLoadInFlight)

----------------------------------------------------------------------------
(* Error and data after the last response *)

\* the error banner of the prompt manager shows the message of a failed load
LoadErrorShown(e) == e = ErrLoad \/ e = ErrLoadNotFound

\* C26: once every fetch of a component that was in flight has completed,
\* the error and the data on display stem from the same response: an error
\* is shown exactly when the response applied last was a failure, in every
\* order of arrival.
ErrorStemsFromLastResponse ==
    [][ /\ \A msg \in BagToSet(dashInbox) :
              (AnalyticsResponse(msg) /\ dashInbox' = EmptyBag)
                  => /\ (dashError' # Null) <=> (msg.status # 200)
                     /\ msg.status = 200 => data' = msg.body
        /\ \A msg \in BagToSet(inbox) :
              (LoadResponse(msg) /\ inbox' = EmptyBag)
                  => (LoadErrorShown(error') <=> (msg.status # 200)) ]_vars

----------------------------------------------------------------------------
(* The time window of the overview *)

\* the records on display are the answer to a query for the window selected
ShowsSelectedWindow ==
    \E r \in ArtifactResponses(FetchTimeRange(timeWindow, customDateRange)) :
        r.status = 200 /\ data = r.body

\* nothing is in flight, no error is shown and the window selected can be
\* queried
OverviewSettled ==
    /\ activeTab = "overview"
    /\ dashInbox = EmptyBag
    /\ dashError = Null
    /\ RangeUsable

\* C27: whenever the user selects a different time window on the overview
\* (a preset after a preset, a preset after the custom range, or a custom
\* range that is complete) a fetch for the new window is issued, so that
\* once nothing is in flight the records on display are the result of a
\* query for the window selected.
WindowChangeFetchesNewWindow ==
    [][ /\ \A value \in {Last24Hours, Last7Days} :
              HandleTimeWindowChange(value)
                  => BagCardinality(dashInbox') = BagCardinality(dashInbox) + 1
        /\ \A range \in RangeInputs :
              (HandleCustomDateRangeChange(range)
                 /\ range.from # NoDate /\ range.to # NoDate)
                  => BagCardinality(dashInbox') = BagCardinality(dashInbox) + 1
        /\ OverviewSettled' => ShowsSelectedWindow' ]_vars

----------------------------------------------------------------------------
(* The data table *)

\* pageSize of useState, and the rows-per-page options offered here
DefaultPageSize == 10

LargePageSize == 25

PageSizes == {DefaultPageSize, LargePageSize}

\* number of responses that can be on their way to the dashboard and to
\* the data table at the same time
MaxTableLoads == 3

\* appliedFilters of useState
NoTableFilters == [status |-> Null, template |-> Null, search |-> Empty]

\* collection.find({}).skip(skip).limit(limit).sort({created_at: -1}):
\* the filters, the time parameters and env of the body are not read
TableRows(skip, limit) ==
    LET last == IF skip + limit < ArtifactCount THEN skip + limit
                ELSE ArtifactCount
    IN  [i \in 1..(IF last > skip THEN last - skip ELSE 0) |->
            ResultJson(ArtifactDocs[skip + i])]

\* POST /api/artifacts for a page: {total, skip, limit, data}, or the 500
\* of the catch block
TableResponses(page, pageSize) ==
    {[status |-> 200, data |-> TableRows((page - 1) * pageSize, pageSize),
      total |-> ArtifactCount],
     [status |-> 500, data |-> << >>, total |-> 0]}

\* Math.ceil(totalResults / pagination.pageSize)
TotalPages ==
    (table.totalResults + table.pageSize - 1) \div table.pageSize

\* k more responses can be on their way
CanLoadTable(k) ==
    BagCardinality(tableInbox) + BagCardinality(dashInbox) + k <= MaxTableLoads

\* fetchTableData(page, pageSize) up to its await of fetch, called once
FetchTableData(page, pageSize) ==
    /\ CanLoadTable(1)
    /\ \E r \in TableResponses(page, pageSize) :
          tableInbox' = tableInbox (+) One(r)

\* fetchTableData(page, pageSize) called by a handler, and fetchTableData()
\* called by the effect on [fetchTableData] after the handler's state
\* changes have given the callback a new identity
FetchTableDataTwice(page, pageSize) ==
    /\ CanLoadTable(2)
    /\ \E r1, r2 \in TableResponses(page, pageSize) :
          tableInbox' = (tableInbox (+) One(r1)) (+) One(r2)

\* the state of the table after a handler has set some of it and
\* fetchTableData has run up to its await
Fetching(t, action) ==
    [t EXCEPT !.loading = TRUE, !.error = Null, !.lastAction = action]

\* what the table's handlers leave alone of the page around it
TableOnly ==
    /\ UNCHANGED <<data, dashLoading, dashError, dashInbox>>
    /\ UNCHANGED <<environment, timeWindow, customDateRange, activeTab>>
    /\ UNCHANGED <<uiVars, serverVars>>

\* onChange of the search box
SetSearchTerm(value) ==
    /\ activeTab = "data"
    /\ value # table.searchTerm
    /\ table' = [table EXCEPT !.searchTerm = value]
    /\ UNCHANGED tableInbox
    /\ TableOnly

\* applyFilters
ApplyFilters ==
    /\ activeTab = "data"
    /\ table' = Fetching([table EXCEPT
                    !.appliedFilters = [status |-> Null, template |-> Null,
                                        search |-> table.searchTerm],
                    !.page = 1], "filters")
    /\ FetchTableDataTwice(1, table.pageSize)
    /\ TableOnly

\* handleSearchSubmit
HandleSearchSubmit ==
    /\ activeTab = "data"
    /\ table' = Fetching([table EXCEPT
                    !.appliedFilters.search = table.searchTerm,
                    !.page = 1], "filters")
    /\ FetchTableDataTwice(1, table.pageSize)
    /\ TableOnly

\* the button that clears the search of the applied filters
ClearSearchFilter ==
    /\ activeTab = "data"
    /\ table.appliedFilters.search # Empty
    /\ table' = Fetching([table EXCEPT
                    !.searchTerm = Empty,
                    !.appliedFilters.search = Empty,
                    !.page = 1], "filters")
    /\ FetchTableDataTwice(1, table.pageSize)
    /\ TableOnly

\* handlePageChange(newPage) of the page buttons, shown when there is more
\* than one page; the effect runs when the page has changed
HandlePageChange(newPage) ==
    /\ activeTab = "data"
    /\ TotalPages > 1
    /\ newPage \in 1..TotalPages
    /\ table' = Fetching([table EXCEPT !.page = newPage], "page")
    /\ IF newPage # table.page
       THEN FetchTableDataTwice(newPage, table.pageSize)
       ELSE FetchTableData(newPage, table.pageSize)
    /\ TableOnly

\* handlePageSizeChange(newPageSize) of the rows-per-page select
HandlePageSizeChange(newPageSize) ==
    /\ activeTab = "data"
    /\ TotalPages > 1
    /\ newPageSize # table.pageSize
    /\ table' = Fetching([table EXCEPT !.page = 1,
                                       !.pageSize = newPageSize,
                                       !.total = table.totalResults],
                         "pageSize")
    /\ FetchTableDataTwice(1, newPageSize)
    /\ TableOnly

\* handleRefresh under a preset window: the applied filters are set again,
\* which runs the effect on [fetchTableData], and onRefresh is
\* fetchAnalyticsData of the dashboard
HandleRefresh ==
    /\ activeTab = "data"
    /\ timeWindow # CustomRange
    /\ CanLoadTable(2)
    /\ FetchAnalyticsData(timeWindow, customDateRange, dashInbox)
    /\ table' = Fetching([table EXCEPT
                    !.appliedFilters = [status |-> Null, template |-> Null,
                                        search |-> table.searchTerm]],
                         "refresh")
    /\ FetchTableData(table.page, table.pageSize)
    /\ UNCHANGED <<environment, timeWindow, customDateRange, activeTab>>
    /\ UNCHANGED <<uiVars, serverVars>>

\* the environment select of the dashboard while the data tab is shown:
\* the dashboard's effect fetches on the overview only, the table's
\* callback depends on environment
TableEnvironmentChange(value) ==
    /\ activeTab = "data"
    /\ value # environment
    /\ environment' = value
    /\ table' = Fetching(table, "environment")
    /\ FetchTableData(table.page, table.pageSize)
    /\ UNCHANGED <<data, dashLoading, dashError, dashInbox>>
    /\ UNCHANGED <<timeWindow, customDateRange, activeTab>>
    /\ UNCHANGED <<uiVars, serverVars>>

\* the time window select of the dashboard while the data tab is shown,
\* from one preset to another: handleTimeWindowChange does not fetch, the
\* table's callback depends on timeWindow
TableTimeWindowChange(value) ==
    /\ activeTab = "data"
    /\ value # timeWindow
    /\ timeWindow # CustomRange /\ value # CustomRange
    /\ timeWindow' = value
    /\ table' = Fetching(table, "timeWindow")
    /\ FetchTableData(table.page, table.pageSize)
    /\ UNCHANGED <<data, dashLoading, dashError, dashInbox>>
    /\ UNCHANGED <<environment, customDateRange, activeTab>>
    /\ UNCHANGED <<uiVars, serverVars>>

\* fetchTableData from the response of its fetch on
TableResponse(msg) ==
    /\ activeTab = "data"
    /\ BagIn(msg, tableInbox)
    /\ tableInbox' = tableInbox (-) One(msg)
    /\ table' = IF msg.status = 200
                THEN [table EXCEPT !.data = msg.data,
                                   !.totalResults = msg.total,
                                   !.total = msg.total,
                                   !.loading = FALSE]
                ELSE [table EXCEPT !.error = ErrHttp,
                                   !.data = << >>,
                                   !.loading = FALSE]
    /\ TableOnly

\* fetchAnalyticsData from its response on while the data tab is shown:
\* the effects on [initialData] and on [isLoading] of the table run
TableAnalyticsResponse(msg) ==
    /\ activeTab = "data"
    /\ BagIn(msg, dashInbox)
    /\ dashInbox' = dashInbox (-) One(msg)
    /\ IF msg.status = 200
       THEN data' = msg.body /\ dashError' = dashError
       ELSE data' = << >> /\ dashError' = ErrHttp
    /\ dashLoading' = FALSE
    /\ table' = [table EXCEPT !.data = data',
                              !.loading = IF dashLoading THEN FALSE ELSE @]
    /\ UNCHANGED tableInbox
    /\ UNCHANGED <<environment, timeWindow, customDateRange, activeTab>>
    /\ UNCHANGED <<uiVars, serverVars>>

----------------------------------------------------------------------------
(* Specification of the data tab *)

\* the data tab after the table is mounted on a dashboard that has loaded
\* the overview: the effects have set data to initialData and have called
\* fetchTableData
InitTable ==
    /\ store = EmptyBag
    /\ inserted = 0
    /\ assigned = {}
    /\ pending = EmptyBag
    /\ resp = NoResp
    /\ inbox = EmptyBag
    /\ InitUnmounted
    /\ \E r \in ArtifactResponses(GetTimeFilter(Last24Hours)) :
          r.status = 200 /\ data = r.body
    /\ dashLoading = FALSE
    /\ dashError = Null
    /\ dashInbox = EmptyBag
    /\ environment = "dev"
    /\ timeWindow = Last24Hours
    /\ customDateRange = NoRange
    /\ activeTab = "data"
    /\ table = [data |-> data, loading |-> TRUE, error |-> Null,
                searchTerm |-> Empty, page |-> 1,
                pageSize |-> DefaultPageSize, total |-> 0,
                totalResults |-> 0, appliedFilters |-> NoTableFilters,
                lastAction |-> "mount"]
    /\ tableInbox \in {One(r) : r \in TableResponses(1, DefaultPageSize)}

SetSearchTermStep == \E value \in {Empty, TextX} : SetSearchTerm(value)

HandlePageChangeStep == \E newPage \in 1..ArtifactCount : HandlePageChange(newPage)

HandlePageSizeChangeStep ==
    \E newPageSize \in PageSizes : HandlePageSizeChange(newPageSize)

TableEnvironmentChangeStep ==
    \E value \in {"dev", "prod"} : TableEnvironmentChange(value)

TableTimeWindowChangeStep ==
    \E value \in {Last24Hours, Last7Days} : TableTimeWindowChange(value)

TableResponseStep == \E msg \in BagToSet(tableInbox) : TableResponse(msg)

TableAnalyticsResponseStep ==
    \E msg \in BagToSet(dashInbox) : TableAnalyticsResponse(msg)

NextTable ==
    \/ SetSearchTermStep
    \/ ApplyFilters
    \/ HandleSearchSubmit
    \/ ClearSearchFilter
    \/ HandlePageChangeStep
    \/ HandlePageSizeChangeStep
    \/ HandleRefresh
    \/ TableEnvironmentChangeStep
    \/ TableTimeWindowChangeStep
    \/ TableResponseStep
    \/ TableAnalyticsResponseStep

SpecTable == InitTable /\ [][NextTable]_vars

\* nothing is on its way to the table or to the dashboard around it
TableSettled ==
    activeTab = "data" /\ tableInbox = EmptyBag /\ dashInbox = EmptyBag

\* C28: after the user has applied filters, submitted a search or cleared
\* a filter and every request in flight has completed, the rows on display
\* are the response to a request with the applied filters and page 1, in
\* every order of arrival.
FilteredRowsAreFirstPage ==
    (TableSettled /\ table.lastAction = "filters" /\ table.error = Null)
        => /\ table.page = 1
           /\ \E r \in TableResponses(1, table.pageSize) :
                 r.status = 200 /\ table.data = r.data

\* C29: whenever no fetch is in flight and the total count is positive,
\* the current page is within 1..ceil(total / pageSize) and no more than
\* pageSize rows are on display, after any sequence of page changes, page
\* size changes, filter changes, refreshes and changes of the data, the
\* time window and the environment from the dashboard.
PageAndRowsWithinBounds ==
    (TableSettled /\ table.total > 0)
        => /\ table.page \in
                 1..((table.total + table.pageSize - 1) \div table.pageSize)
           /\ Len(table.data) <= table.pageSize

----------------------------------------------------------------------------
(* The environment and the store *)

\* the responses a step has put on their way to the dashboard
SentToDashboard ==
    {msg \in BagToSet(dashInbox') :
        CopiesIn(msg, dashInbox') > CopiesIn(msg, dashInbox)}

\* C30: a request made with environment 'prod' is served only from the
\* prod store and one made with 'dev' only from the dev store, so the
\* environment shown in the dashboard is the store the records on display
\* came from.
EnvironmentSelectsStore ==
    [][ /\ \A msg \in SentToDashboard :
              msg.status = 200 => msg.store = environment'
        /\ \A msg \in BagToSet(dashInbox) :
              (AnalyticsResponse(msg) /\ msg.status = 200
                 /\ dashInbox' = EmptyBag)
                  => msg.store = environment ]_vars

====
